---- MODULE Spec2Model ----
(***************************************************************************)
(* State-machine model of the vibegl application framework:                *)
(*   core/Application      window / context bootstrap, main loop, teardown *)
(*   VibeGLApp             the derived demo application (GPU resources)    *)
(*   rendering/ShaderManager, rendering/TextureLoader   loader utilities   *)
(* The windowing library, the UI overlay and the graphics context are      *)
(* modelled by the part of their state the framework's calls read or write.*)
(***************************************************************************)
EXTENDS Integers, Sequences, FiniteSets, TLC

\* ---------------------------------------------------------------- bounds
\* ticks executed over the life of one instance
MaxTicks == 2
\* run() calls on one instance
MaxRuns == 2
\* largest reading of the monotonic clock (in clock units)
MaxTime == 4
\* input events delivered by one glfwPollEvents call
MaxEvents == 1
\* changes of the files on disk between two run() calls
MaxFsChanges == 1
\* calls a client makes to the loaders and reactions, one after another
MaxCalls == 4

\* --------------------------------------------------- program constants
GLFW_KEY_ESCAPE == 256
GLFW_KEY_SPACE == 32
GLFW_RELEASE == 0
GLFW_PRESS == 1
GLFW_REPEAT == 2
\* significant bits kept by the model's float (static_cast<float>)
MantissaBits == 2

Platforms == {"desktop", "web"}

\* kShaderSuffix, fixed at build time
kShaderSuffix(plat) == IF plat = "web" THEN "_es3" ELSE "_gl46"

\* ------------------------------------------------------------- float
RECURSIVE Pow2(_)
Pow2(n) == IF n = 0 THEN 1 ELSE 2 * Pow2(n - 1)

RECURSIVE Ulp(_, _)
\* spacing of the representable values around x >= 0
Ulp(x, u) == IF x < u * Pow2(MantissaBits) THEN u ELSE Ulp(x, 2 * u)

\* round x >= 0 to the nearest representable value, ties to the even mantissa
RoundTo(x, u, lo) ==
    IF x = lo THEN x
    ELSE IF 2 * (x - lo) < u THEN lo
    ELSE IF 2 * (x - lo) > u THEN lo + u
    ELSE IF (lo \div u) % 2 = 0 THEN lo ELSE lo + u

RoundUlp(x, u) == RoundTo(x, u, (x \div u) * u)

RoundF(x) == RoundUlp(x, Ulp(x, 1))

\* static_cast<float>(double)
ToFloat(x) == RoundF(x)

\* float subtraction a - b, for a >= b >= 0
FSub(a, b) == RoundF(a - b)

\* ------------------------------------------------------- graphics context
\* Names of shader and program objects come from one namespace; textures,
\* vertex arrays and buffers have a namespace each.  images holds the pair
\* <<texture, rows>> for every texture that has an image.  released holds the
\* <<namespace, name>> pairs a delete call was issued for and that were not
\* generated again since.
EmptyGL ==
    [ shaders |-> {}, programs |-> {}, attached |-> {}, flagged |-> {},
      textures |-> {}, images |-> {}, mipmaps |-> {}, vertexArrays |-> {},
      buffers |-> {},
      currentProgram |-> 0, viewport |-> <<0, 0>>,
      released |-> {}, staleDelete |-> FALSE, staleUse |-> FALSE ]

\* the smallest name not in use
FreshName(used) == CHOOSE n \in 1..(Cardinality(used) + 1) :
                      n \notin used /\ \A m \in 1..(n - 1) : m \in used

\* bookkeeping of a delete call on a non-zero name
NoteDelete(g, ns, n, live) ==
    IF n \notin live \/ <<ns, n>> \in g.released
    THEN [g EXCEPT !.staleDelete = TRUE]
    ELSE [g EXCEPT !.released = @ \cup {<<ns, n>>}]

\* the context after a name was generated in namespace ns
Generated(g, ns, n) == [g EXCEPT ![ns] = @ \cup {n}]

NewObject(g, field, ns, n) ==
    [ gl |-> [Generated(g, field, n) EXCEPT !.released = @ \ {<<ns, n>>}],
      name |-> n ]

glCreateShader(g) ==
    NewObject(g, "shaders", "object", FreshName(g.shaders \cup g.programs))

glCreateProgram(g) ==
    NewObject(g, "programs", "object", FreshName(g.shaders \cup g.programs))

glAttachShader(g, p, s) ==
    IF p \in g.programs /\ s \in g.shaders
    THEN [g EXCEPT !.attached = @ \cup {<<p, s>>}]
    ELSE g

\* a shader still attached to a program is only flagged for deletion
ShaderDeleted(h, s) ==
    IF s \notin h.shaders THEN h
    ELSE IF \E p \in h.programs : <<p, s>> \in h.attached
    THEN [h EXCEPT !.flagged = @ \cup {s}]
    ELSE [h EXCEPT !.shaders = @ \ {s}, !.flagged = @ \ {s}]

glDeleteShader(g, s) ==
    IF s = 0 THEN g ELSE ShaderDeleted(NoteDelete(g, "object", s, g.shaders), s)

\* the program object goes away: its shaders are detached, and those
\* flagged for deletion and attached nowhere else go with it
Detached(g, p, att, gone) ==
    [g EXCEPT !.programs = @ \ {p}, !.attached = att,
              !.shaders = @ \ gone, !.flagged = (@ \ gone) \ {p}]

RemoveProgram(g, p) ==
    Detached(g, p, {ps \in g.attached : ps[1] # p},
             {s \in g.flagged \cap g.shaders :
                 ~ \E ps \in g.attached : ps[1] # p /\ ps[2] = s})

\* the program in use is only flagged for deletion
ProgramDeleted(h, p) ==
    IF p \notin h.programs THEN h
    ELSE IF h.currentProgram = p
    THEN [h EXCEPT !.flagged = @ \cup {p}]
    ELSE RemoveProgram(h, p)

glDeleteProgram(g, p) ==
    IF p = 0 THEN g ELSE ProgramDeleted(NoteDelete(g, "object", p, g.programs), p)

glUseProgram(g, p) ==
    IF p # 0 /\ (p \notin g.programs \/ <<"object", p>> \in g.released)
    THEN [g EXCEPT !.staleUse = TRUE]
    ELSE IF g.currentProgram # p /\ g.currentProgram \in g.flagged
    THEN RemoveProgram([g EXCEPT !.currentProgram = p], g.currentProgram)
    ELSE [g EXCEPT !.currentProgram = p]

glGenTextures(g) == NewObject(g, "textures", "texture", FreshName(g.textures))

glBindTexture(g, t) ==
    IF t # 0 /\ t \notin g.textures THEN [g EXCEPT !.staleUse = TRUE] ELSE g

\* the image of the texture t bound to GL_TEXTURE_2D is replaced by rows
glTexImage2D(g, t, rows) ==
    IF t \notin g.textures THEN g
    ELSE [g EXCEPT !.images = {im \in @ : im[1] # t} \cup {<<t, rows>>}]

glDeleteTextures(g, t) ==
    IF t = 0 THEN g
    ELSE [NoteDelete(g, "texture", t, g.textures)
            EXCEPT !.textures = @ \ {t}, !.images = {im \in @ : im[1] # t},
                   !.mipmaps = @ \ {t}]

\* the lower levels of the texture t bound to GL_TEXTURE_2D are derived
\* from its image
glGenerateMipmap(g, t) ==
    IF \E im \in g.images : im[1] = t
    THEN [g EXCEPT !.mipmaps = @ \cup {t}]
    ELSE g

glGenVertexArrays(g) ==
    NewObject(g, "vertexArrays", "vertexArray", FreshName(g.vertexArrays))

glBindVertexArray(g, v) ==
    IF v # 0 /\ v \notin g.vertexArrays THEN [g EXCEPT !.staleUse = TRUE] ELSE g

glDeleteVertexArrays(g, v) ==
    IF v = 0 THEN g
    ELSE [NoteDelete(g, "vertexArray", v, g.vertexArrays)
            EXCEPT !.vertexArrays = @ \ {v}]

glGenBuffers(g) == NewObject(g, "buffers", "buffer", FreshName(g.buffers))

glDeleteBuffers(g, b) ==
    IF b = 0 THEN g
    ELSE [NoteDelete(g, "buffer", b, g.buffers) EXCEPT !.buffers = @ \ {b}]

glViewport(g, w, h) == [g EXCEPT !.viewport = <<w, h>>]

\* number of shader and program objects the context holds
ObjectCount(g) == Cardinality(g.shaders) + Cardinality(g.programs)

\* ------------------------------------------------------------ file system
\* A shader file is missing or holds a source text; a source text compiles
\* or not, and two compiled stages link or not.
ShaderSources == {"good", "unlinkable", "bad"}
ShaderFileStates == {"missing"} \cup ShaderSources
ImageFileStates == {"missing", "image"}
\* the states a client's texture file can be in: also a file that is there
\* and does not decode, and images of fewer channels
ClientImageFileStates == ImageFileStates \cup {"corrupt", "rgb", "grey"}

Compiles(source) == source # "bad"
Links(vertSource, fragSource) == vertSource = "good" /\ fragSource = "good"
\* the driver's diagnostic for a source that does not compile or link
InfoLog(source) == "0:1: error: " \o source

FileStatus(files, path) == IF path \in DOMAIN files THEN files[path] ELSE "missing"

\* its definition is not among the sources; the loaders get its result
resolvePath(relative) == relative

NoError == [message |-> "", context |-> ""]
Success(v) == [ok |-> TRUE, value |-> v, error |-> NoError]
Failure(m, c) == [ok |-> FALSE, value |-> 0, error |-> [message |-> m, context |-> c]]

\* ---------------------------------------------------------- ShaderManager
\* getErrorMessage(errno) after a failed open: ENOENT
getErrorMessage == "2 - No such file or directory"

readFile(files, path) ==
    IF FileStatus(files, path) = "missing"
    THEN Failure("Failed to open shader file",
                 path \o " (errno: " \o getErrorMessage \o ")")
    ELSE Success(FileStatus(files, path))

\* what glGetShaderInfoLog / glGetProgramInfoLog write into errorLog: the
\* driver's diagnostic, or nothing when the driver keeps no log
\* (GL_INFO_LOG_LENGTH = 0, an empty vector)
errorLog(verbose, source) == IF verbose THEN InfoLog(source) ELSE ""

\* compileShader, after glCreateShader returned the shader c
CompileCreated(c, type, source, verbose) ==
    IF ~ Compiles(source)
    THEN [ gl |-> glDeleteShader(c.gl, c.name),
           result |-> Failure((IF type = "GL_VERTEX_SHADER" THEN "vertex"
                                                            ELSE "fragment")
                                \o " shader compilation failed",
                              errorLog(verbose, source)) ]
    ELSE [ gl |-> c.gl, result |-> Success(c.name) ]

\* compileShader handing out the driver's diagnostic only as long as no
\* earlier call released an object
compileShader_logsOnce(g, type, source, verbose) ==
    CompileCreated(glCreateShader(g), type, source, verbose /\ g.released = {})

compileShader(g, type, source, verbose) ==
    CompileCreated(glCreateShader(g), type, source, verbose)

\* linkProgram, after both stages were attached to the program
LinkAttached(g, program, linked, verbose) ==
    IF ~ linked
    THEN [ gl |-> glDeleteProgram(g, program),
           result |-> Failure("Shader program linking failed",
                              errorLog(verbose, "link")) ]
    ELSE [ gl |-> g, result |-> Success(program) ]

\* linkProgram, after glCreateProgram returned the program c
LinkCreated(c, vertShader, fragShader, linked, verbose) ==
    LinkAttached(glAttachShader(glAttachShader(c.gl, c.name, vertShader),
                                c.name, fragShader),
                 c.name, linked, verbose)

\* linked is the GL_LINK_STATUS the driver reports for the two stages
linkProgram(g, vertShader, fragShader, linked, verbose) ==
    LinkCreated(glCreateProgram(g), vertShader, fragShader, linked, verbose)

\* the end of loadProgramFromFiles without the two glDeleteShader calls
LinkStages_keepsShaders(vertShader, fragShader, program) ==
    [ gl |-> program.gl,
      result |-> program.result,
      steps |-> <<"readVert", "readFrag", "compileVert", "compileFrag", "link">> ]

\* loadProgramFromFiles, from the link on: both stages compiled
LinkStages(vertShader, fragShader, program) ==
    [ gl |-> glDeleteShader(glDeleteShader(program.gl, vertShader), fragShader),
      result |-> program.result,
      steps |-> <<"readVert", "readFrag", "compileVert", "compileFrag", "link">> ]

\* the failure path of the fragment stage without glDeleteShader(vertShader)
AfterFragmentCompile_keepsVertex(vertShader, linked, verbose, fragShader) ==
    IF ~ fragShader.result.ok
    THEN [ gl |-> fragShader.gl, result |-> fragShader.result,
           steps |-> <<"readVert", "readFrag", "compileVert", "compileFrag">> ]
    ELSE LinkStages(vertShader, fragShader.result.value,
                    linkProgram(fragShader.gl, vertShader,
                                fragShader.result.value, linked, verbose))

\* loadProgramFromFiles, after the fragment stage was compiled
AfterFragmentCompile(vertShader, linked, verbose, fragShader) ==
    IF ~ fragShader.result.ok
    THEN [ gl |-> glDeleteShader(fragShader.gl, vertShader),
           result |-> fragShader.result,
           steps |-> <<"readVert", "readFrag", "compileVert", "compileFrag">> ]
    ELSE LinkStages(vertShader, fragShader.result.value,
                    linkProgram(fragShader.gl, vertShader,
                                fragShader.result.value, linked, verbose))

\* loadProgramFromFiles compiling the fragment stage although the vertex
\* stage failed
AfterVertexCompile_compilesBoth(vertSource, fragSource, verbose, vertShader) ==
    IF ~ vertShader.result.ok
    THEN [ gl |-> glDeleteShader(
                      compileShader(vertShader.gl, "GL_FRAGMENT_SHADER",
                                    fragSource, verbose).gl,
                      compileShader(vertShader.gl, "GL_FRAGMENT_SHADER",
                                    fragSource, verbose).result.value),
           result |-> vertShader.result,
           steps |-> <<"readVert", "readFrag", "compileVert", "compileFrag">> ]
    ELSE AfterFragmentCompile(vertShader.result.value,
                              Links(vertSource, fragSource), verbose,
                              compileShader(vertShader.gl, "GL_FRAGMENT_SHADER",
                                            fragSource, verbose))

\* loadProgramFromFiles, after the vertex stage was compiled
AfterVertexCompile(vertSource, fragSource, verbose, vertShader) ==
    IF ~ vertShader.result.ok
    THEN [ gl |-> vertShader.gl, result |-> vertShader.result,
           steps |-> <<"readVert", "readFrag", "compileVert">> ]
    ELSE AfterFragmentCompile(vertShader.result.value,
                              Links(vertSource, fragSource), verbose,
                              compileShader(vertShader.gl, "GL_FRAGMENT_SHADER",
                                            fragSource, verbose))

\* loadProgramFromFiles, after the fragment file was read
AfterFragmentRead(g, vertSource, verbose, fragSource) ==
    IF ~ fragSource.ok
    THEN [ gl |-> g, result |-> fragSource, steps |-> <<"readVert", "readFrag">> ]
    ELSE AfterVertexCompile(vertSource, fragSource.value, verbose,
                            compileShader(g, "GL_VERTEX_SHADER", vertSource, verbose))

\* loadProgramFromFiles compiling the vertex stage before the fragment
\* file is read
AfterVertexRead_compilesFirst(g, fs, fragPath, verbose, vertSource) ==
    IF ~ vertSource.ok
    THEN [ gl |-> g, result |-> vertSource, steps |-> <<"readVert">> ]
    ELSE IF ~ readFile(fs, fragPath).ok
    THEN [ gl |-> glDeleteShader(
                      compileShader(g, "GL_VERTEX_SHADER", vertSource.value,
                                    verbose).gl,
                      compileShader(g, "GL_VERTEX_SHADER", vertSource.value,
                                    verbose).result.value),
           result |-> readFile(fs, fragPath),
           steps |-> <<"readVert", "compileVert", "readFrag">> ]
    ELSE AfterVertexCompile(vertSource.value, readFile(fs, fragPath).value, verbose,
                            compileShader(g, "GL_VERTEX_SHADER", vertSource.value,
                                          verbose))

\* loadProgramFromFiles, after the vertex file was read
AfterVertexRead(g, fs, fragPath, verbose, vertSource) ==
    IF ~ vertSource.ok
    THEN [ gl |-> g, result |-> vertSource, steps |-> <<"readVert">> ]
    ELSE AfterFragmentRead(g, vertSource.value, verbose, readFile(fs, fragPath))

\* steps is the list of the steps the call executed, in order; verbose
\* tells whether the driver keeps an info log
loadProgramFromFiles(g, fs, vertPath, fragPath, verbose) ==
    AfterVertexRead(g, fs, fragPath, verbose, readFile(fs, vertPath))

\* loadProgram building the fragment path without the platform suffix
loadProgram_fragmentWithoutSuffix(g, fs, plat, baseName, directory, verbose) ==
    loadProgramFromFiles(g, fs,
                         directory \o baseName \o kShaderSuffix(plat) \o ".vert",
                         directory \o baseName \o ".frag",
                         verbose)

loadProgram(g, fs, plat, baseName, directory, verbose) ==
    loadProgramFromFiles(g, fs,
                         directory \o baseName \o kShaderSuffix(plat) \o ".vert",
                         directory \o baseName \o kShaderSuffix(plat) \o ".frag",
                         verbose)

deleteProgram(g, program) ==
    IF program # 0 THEN glDeleteProgram(g, program) ELSE g

\* --------------------------------------------------------------- stb_image
\* An image file holds rows of pixels, the top row first; a pixel is the
\* sequence of its samples, one per channel of the file.
ImageData(state) ==
    CASE state = "image" -> << << <<1, 2, 3, 4>> >>, << <<5, 6, 7, 8>> >> >>
      [] state = "rgb" -> << << <<1, 2, 3>>, <<4, 5, 6>> >>,
                             << <<7, 8, 9>>, <<10, 11, 12>> >> >>
      [] state = "grey" -> << << <<9>> >>, << <<10>> >>, << <<11>> >> >>
      [] OTHER -> <<>>

\* a file that is there and holds an image the decoder reads
Decodes(state) == ImageData(state) # <<>>

\* the library before any call: no flip on load, no pixel buffer handed out
NoStbi == [flip |-> FALSE, buffers |-> 0]

\* the flag staying set once it was set
stbi_set_flip_vertically_on_load_sticky(s, flag) ==
    [s EXCEPT !.flip = @ \/ flag]

\* sets the flag later stbi_load calls read
stbi_set_flip_vertically_on_load(s, flag) == [s EXCEPT !.flip = flag]

\* the conversion of one pixel to the four channels asked for
ConvertFormat(px) ==
    CASE Len(px) = 1 -> <<px[1], px[1], px[1], 255>>
      [] Len(px) = 2 -> <<px[1], px[1], px[1], px[2]>>
      [] Len(px) = 3 -> <<px[1], px[2], px[3], 255>>
      [] OTHER -> px

ConvertRow(row) == [x \in 1..Len(row) |-> ConvertFormat(row[x])]

VerticalFlip(rows) == [y \in 1..Len(rows) |-> rows[Len(rows) + 1 - y]]

\* the rows of an image, each pixel converted
Converted(rows) == [y \in 1..Len(rows) |-> ConvertRow(rows[y])]

\* stbi_load(path, ..., 4): no data for a file that is missing or does not
\* decode, otherwise the pixels as four channels, bottom row first when
\* the flag is set
stbi_load(s, fs, path) ==
    IF ~ Decodes(FileStatus(fs, path)) THEN <<>>
    ELSE IF s.flip THEN VerticalFlip(Converted(ImageData(FileStatus(fs, path))))
    ELSE Converted(ImageData(FileStatus(fs, path)))

\* the decoder after stbi_load handed out the buffer of a decoded image
BufferReturned(s) == [s EXCEPT !.buffers = @ + 1]

stbi_image_free(s) == [s EXCEPT !.buffers = @ - 1]

\* ---------------------------------------------------------- TextureLoader
\* loadTexture, after glBindTexture and glTexImage2D
Uploaded(c, s, data) ==
    [ gl |-> glTexImage2D(glBindTexture(c.gl, c.name), c.name, data), stbi |-> s ]

\* after glGenerateMipmap
Mipmapped(t, st) == [st EXCEPT !.gl = glGenerateMipmap(@, t)]

\* after stbi_image_free
Freed(st) == [st EXCEPT !.stbi = stbi_image_free(@)]

\* the buffer freed between the upload and the mipmap generation
TextureSteps_freesBeforeMipmap(c, s, data) ==
    << Uploaded(c, s, data),
       Freed(Uploaded(c, s, data)),
       Mipmapped(c.name, Freed(Uploaded(c, s, data))) >>

\* the states loadTexture goes through once glGenTextures returned the
\* texture c: after the upload, the mipmap generation, the free
TextureSteps(c, s, data) ==
    << Uploaded(c, s, data),
       Mipmapped(c.name, Uploaded(c, s, data)),
       Freed(Mipmapped(c.name, Uploaded(c, s, data))) >>

\* loadTexture, after glGenTextures returned the texture c
TextureGenerated(c, s, data) ==
    [ gl |-> TextureSteps(c, s, data)[3].gl, stbi |-> TextureSteps(c, s, data)[3].stbi,
      result |-> c.name, logged |-> <<>> ]

\* loadTexture, after stbi_load returned data
ImageLoaded(g, s, filepath, data) ==
    IF data = <<>>
    THEN [ gl |-> g, stbi |-> s, result |-> 0,
           logged |-> <<"Failed to load texture: " \o filepath>> ]
    ELSE TextureGenerated(glGenTextures(g), BufferReturned(s), data)

\* loadTexture with the flag always set, whatever flipVertically is
loadTexture_alwaysFlips(g, s, fs, filepath, flipVertically) ==
    ImageLoaded(g, stbi_set_flip_vertically_on_load(s, TRUE), filepath,
                stbi_load(stbi_set_flip_vertically_on_load(s, TRUE), fs, filepath))

\* returns the bare texture name, 0 when decoding fails; logged holds the
\* lines written with spdlog::error
loadTexture(g, s, fs, filepath, flipVertically) ==
    ImageLoaded(g, stbi_set_flip_vertically_on_load(s, flipVertically), filepath,
                stbi_load(stbi_set_flip_vertically_on_load(s, flipVertically),
                          fs, filepath))

\* deleteTexture taking the handle 0 for every texture of the context
deleteTexture_zeroDeletesAll(g, texture) ==
    IF texture # 0 THEN glDeleteTextures(g, texture) ELSE [g EXCEPT !.textures = {}]

deleteTexture(g, texture) ==
    IF texture # 0 THEN glDeleteTextures(g, texture) ELSE g

\* ------------------------------------------------------------------ state
VARIABLES
    platform,   \* build target: "desktop" (blocking loop) or "web" (callback)
    pc,         \* position of the code that owns the Application instance
    files,      \* the files on disk: path -> state
    fsChanges,  \* number of changes made to the files so far
    glfw,       \* windowing library: initialised, window, close flag, clock
    imgui,      \* UI overlay: alive, number of shutdowns
    gl,         \* graphics context of the window
    app,        \* Application fields: window_, lastFrameTime_, initialized_
    res,        \* VibeGLApp resource handles
    obs,        \* counts of the hook invocations and of run(), tick()
    host,       \* web host: number of animation frames it issued
    lastTick,   \* what the most recent tick() did
    lastLoad,   \* what the most recent onInit and its loadProgram call did
    lastCall,   \* the most recent call a client made to one operation
    mainExit,   \* the legacy main(): whether it returned, and its value
    stbi        \* the image decoder: its flip-on-load flag

vars == <<platform, pc, files, fsChanges, glfw, imgui, gl, app, res, obs, host,
          lastTick, lastLoad, lastCall, mainExit, stbi>>

\* VibeGLApp::VibeGLApp passes this configuration
WindowConfig == [title |-> "VibeGL", width |-> 1280, height |-> 720, vsync |-> TRUE]

\* the paths onInit loads, as loadProgram builds them
VertPath(plat) == resolvePath("data/shaders/") \o "cube" \o kShaderSuffix(plat) \o ".vert"
FragPath(plat) == resolvePath("data/shaders/") \o "cube" \o kShaderSuffix(plat) \o ".frag"
TexturePath == resolvePath("data/textures/sample.png")

\* the states the three files can be in
FileSystems(plat) ==
    { f \in [{VertPath(plat), FragPath(plat), TexturePath} ->
                ShaderFileStates \cup ImageFileStates] :
        /\ f[VertPath(plat)] \in ShaderFileStates \ {"unlinkable"}
        /\ f[FragPath(plat)] \in ShaderFileStates
        /\ f[TexturePath] \in ImageFileStates }

\* the states the three files of a client can be in
ClientFileSystems(plat) ==
    { f \in [{VertPath(plat), FragPath(plat), TexturePath} ->
                ShaderFileStates \cup ClientImageFileStates] :
        /\ f[VertPath(plat)] \in ShaderFileStates \ {"unlinkable"}
        /\ f[FragPath(plat)] \in ShaderFileStates
        /\ f[TexturePath] \in ClientImageFileStates }

\* framebuffer sizes a resize event reports
FbSizes == {<<0, 0>>, <<800, 600>>}

\* the keys and the key actions the library reports to the key reaction
Keys == {GLFW_KEY_ESCAPE, GLFW_KEY_SPACE}
KeyActions == {GLFW_RELEASE, GLFW_PRESS, GLFW_REPEAT}

Events ==
    [type : {"key"}, key : Keys, action : KeyActions]
    \cup [type : {"resize"}, size : FbSizes]
    \cup [type : {"close"}]

\* the events after which the library has the close flag of the window set:
\* the user closing the window, and the press of Escape through the key
\* reaction
RequestsClose(e) ==
    \/ e.type = "close"
    \/ e.type = "key" /\ e.key = GLFW_KEY_ESCAPE /\ e.action = GLFW_PRESS

AnyRequestsClose(events) == \E i \in 1..Len(events) : RequestsClose(events[i])

RECURSIVE SeqsUpTo(_, _)
SeqsUpTo(S, n) ==
    IF n = 0 THEN {<<>>}
    ELSE SeqsUpTo(S, n - 1) \cup
         {Append(q, e) : q \in {r \in SeqsUpTo(S, n - 1) : Len(r) = n - 1}, e \in S}

NoTick == [clock |-> 0, now |-> 0, lastBefore |-> 0, closeBefore |-> FALSE,
           onTicks |-> 0, deltaTime |-> 0,
           closeAtOnTick |-> FALSE, aspectAtOnTick |-> <<0, 0>>, swaps |-> 0,
           closeEvents |-> FALSE, polls |-> 0, endFramePolls |-> 0]
\* the windowing library before glfwInit
NoLibrary == [inited |-> FALSE, window |-> FALSE, shouldClose |-> FALSE,
              fb |-> <<0, 0>>, time |-> 0, swaps |-> 0, polls |-> 0,
              swapInterval |-> 0,
              callbacks |-> FALSE, mainLoop |-> FALSE,
              destroyCalls |-> 0, terminateCalls |-> 0]
\* what a call handed back: a Result<GLuint>, a bare GLuint (ok is then
\* what the caller's test of the handle gives), a bool, or nothing
AsResult(r) == [kind |-> "Result", ok |-> r.ok, value |-> r.value, error |-> r.error]
AsHandle(v) == [kind |-> "GLuint", ok |-> v # 0, value |-> v, error |-> NoError]
AsBool(b) == [kind |-> "bool", ok |-> b, value |-> 0, error |-> NoError]
AsVoid == [kind |-> "void", ok |-> TRUE, value |-> 0, error |-> NoError]
\* no client call was made; verbose is what the driver did about its info
\* log during the call
NoCall == [count |-> 0, op |-> "", args |-> <<>>, verbose |-> FALSE,
           thrown |-> FALSE,
           returned |-> AsVoid, steps |-> <<>>,
           glBefore |-> EmptyGL, glAfter |-> EmptyGL, stbiBefore |-> NoStbi]
\* main() has not returned
NotExited == [exited |-> FALSE, code |-> 0, status |-> 0, after |-> ""]
NoLoad == [called |-> FALSE, ok |-> FALSE, steps |-> <<>>,
           before |-> 0, after |-> 0,
           texture |-> [called |-> FALSE, result |-> 0],
           logged |-> 0, loaded |-> 0]

Init ==
    /\ platform \in Platforms
    /\ pc = "start"
    /\ files \in FileSystems(platform)
    /\ fsChanges = 0
    /\ glfw = NoLibrary
    /\ imgui = [alive |-> FALSE, shutdownCalls |-> 0]
    /\ gl = EmptyGL
    /\ app = [window_ |-> FALSE, lastFrameTime_ |-> 0, initialized_ |-> FALSE]
    /\ res = [shaderProgram_ |-> 0, texture_ |-> 0, vao_ |-> 0, vbo_ |-> 0, ebo_ |-> 0]
    /\ obs = [onInit |-> 0, onTick |-> 0, onShutdown |-> 0, ticks |-> 0,
              runs |-> 0, runTicks |-> 0, runShutdowns |-> 0,
              programsCreated |-> 0, texturesCreated |-> 0, geometryCreated |-> 0,
              deltaSum |-> 0]
    /\ host = [frames |-> 0]
    /\ lastTick = NoTick
    /\ lastLoad = NoLoad
    /\ lastCall = NoCall
    /\ mainExit = NotExited
    /\ stbi = NoStbi

\* ------------------------------------------------------ windowing library
glfwDestroyWindow(w) == [w EXCEPT !.window = FALSE, !.destroyCalls = @ + 1]
glfwTerminate(w) ==
    [w EXCEPT !.inited = FALSE, !.window = FALSE, !.terminateCalls = @ + 1]
glfwSwapBuffers(w) == [w EXCEPT !.swaps = @ + 1]

\* the context goes with its window, and every object in it
ContextLost(g) ==
    [EmptyGL EXCEPT !.staleDelete = g.staleDelete, !.staleUse = g.staleUse]

glfwSetWindowShouldClose(w, value) == [w EXCEPT !.shouldClose = value]

\* the key reaction with the test of the action left out
KeyCallback_anyAction(w, key, action) ==
    IF key = GLFW_KEY_ESCAPE
    THEN glfwSetWindowShouldClose(w, TRUE)
    ELSE w

\* the key reaction registered by initWindow
KeyCallback(w, key, action) ==
    IF key = GLFW_KEY_ESCAPE /\ action = GLFW_PRESS
    THEN glfwSetWindowShouldClose(w, TRUE)
    ELSE w

\* the framebuffer-resize reaction registered by initWindow
FramebufferSizeCallback(g, width, height) == glViewport(g, width, height)

\* one input event reaches the window: the library updates its own state
\* and calls the registered reaction
Deliver(st, e) ==
    IF e.type = "key"
    THEN [st EXCEPT !.glfw = KeyCallback(st.glfw, e.key, e.action)]
    ELSE IF e.type = "resize"
    THEN [glfw |-> [st.glfw EXCEPT !.fb = e.size],
          gl |-> FramebufferSizeCallback(st.gl, e.size[1], e.size[2])]
    ELSE [st EXCEPT !.glfw.shouldClose = TRUE]

RECURSIVE DeliverAll(_, _)
DeliverAll(st, events) ==
    IF events = <<>> THEN st
    ELSE DeliverAll(Deliver(st, Head(events)), Tail(events))

\* on the web target input reactions are called by the browser between
\* frames, and glfwPollEvents finds nothing to deliver
glfwPollEvents(w, g, events) ==
    DeliverAll([glfw |-> [w EXCEPT !.polls = @ + 1], gl |-> g], events)

\* ------------------------------------------------------------ Application
shouldQuit(w) == w.shouldClose

getWindowWidth(w) == w.fb[1]
getWindowHeight(w) == w.fb[2]

\* getAspectRatio without the test of the height
getAspectRatio_noZeroTest(w) == <<getWindowWidth(w), getWindowHeight(w)>>

\* the float quotient as the pair <<numerator, denominator>> of the two
\* converted integers
getAspectRatio(w) ==
    IF getWindowHeight(w) = 0 THEN <<1, 1>>
    ELSE <<getWindowWidth(w), getWindowHeight(w)>>

endFrame(w) == glfwSwapBuffers(w)

initWindow(w, config, initOk, windowOk) ==
    IF ~ initOk THEN [glfw |-> w, window_ |-> FALSE, ok |-> FALSE]
    ELSE IF ~ windowOk
    THEN [glfw |-> glfwTerminate([w EXCEPT !.inited = TRUE]),
          window_ |-> FALSE, ok |-> FALSE]
    ELSE [glfw |-> [w EXCEPT !.inited = TRUE, !.window = TRUE,
                             !.fb = <<config.width, config.height>>,
                             !.callbacks = TRUE,
                             !.swapInterval = IF config.vsync THEN 1 ELSE 0],
          window_ |-> TRUE, ok |-> TRUE]

\* gladOk is the loader's answer; the web build does not call it
initOpenGL(plat, gladOk) == plat = "web" \/ gladOk

initImGui(ui) == [ui EXCEPT !.alive = TRUE]
shutdownImGui(ui) == [ui EXCEPT !.alive = FALSE, !.shutdownCalls = @ + 1]

\* Application::Application, first step: initWindow, or throw
Application_initWindow ==
    /\ pc = "start"
    /\ \E initOk \in BOOLEAN, windowOk \in BOOLEAN :
         \E r \in {initWindow(glfw, WindowConfig, initOk, windowOk)} :
             /\ glfw' = r.glfw
             /\ app' = [app EXCEPT !.window_ = r.window_]
             /\ pc' = IF r.ok THEN "initOpenGL" ELSE "failed"
    /\ UNCHANGED <<stbi, platform, files, fsChanges, imgui, gl, res, obs, host, lastTick, lastLoad,
                   lastCall, mainExit>>

\* the constructor throwing without releasing the window and the library
Application_initOpenGL_leaks ==
    /\ pc = "initOpenGL"
    /\ \E gladOk \in BOOLEAN :
         pc' = IF initOpenGL(platform, gladOk) THEN "initImGui" ELSE "failed"
    /\ UNCHANGED <<stbi, platform, files, fsChanges, glfw, gl, imgui, app, res, obs, host,
                   lastTick, lastLoad,
                   lastCall, mainExit>>

\* Application::Application, second step: initOpenGL, or release and throw
Application_initOpenGL ==
    /\ pc = "initOpenGL"
    /\ \E gladOk \in BOOLEAN :
         IF initOpenGL(platform, gladOk)
         THEN /\ pc' = "initImGui"
              /\ UNCHANGED <<glfw, gl>>
         ELSE /\ glfw' = glfwTerminate(glfwDestroyWindow(glfw))
              /\ gl' = ContextLost(gl)
              /\ pc' = "failed"
    /\ UNCHANGED <<stbi, platform, files, fsChanges, imgui, app, res, obs, host, lastTick, lastLoad,
                   lastCall, mainExit>>

\* Application::Application, last step: initImGui, initialized_ = true
Application_initImGui ==
    /\ pc = "initImGui"
    /\ imgui' = initImGui(imgui)
    /\ app' = [app EXCEPT !.initialized_ = TRUE]
    /\ pc' = "constructed"
    /\ UNCHANGED <<stbi, platform, files, fsChanges, glfw, gl, res, obs, host, lastTick, lastLoad,
                   lastCall, mainExit>>

\* ~Application, statement by statement: the overlay and the library after
\* if (initialized_) shutdownImGui()
AfterOverlay(a, ui, w) ==
    [ imgui |-> IF a.initialized_ THEN shutdownImGui(ui) ELSE ui, glfw |-> w ]

\* after if (window_ != nullptr) glfwDestroyWindow(window_)
AfterWindow(a, st) ==
    [st EXCEPT !.glfw = IF a.window_ THEN glfwDestroyWindow(@) ELSE @]

\* after glfwTerminate()
AfterLibrary(st) == [st EXCEPT !.glfw = glfwTerminate(@)]

\* the destructor terminating the library first and the overlay last
DestructorSteps_libraryFirst(a, ui, w) ==
    << [imgui |-> ui, glfw |-> glfwTerminate(w)],
       AfterWindow(a, [imgui |-> ui, glfw |-> glfwTerminate(w)]),
       AfterOverlay(a, ui, AfterWindow(a, [imgui |-> ui, glfw |-> glfwTerminate(w)]).glfw) >>

\* the states the destructor goes through, one per statement
DestructorSteps(a, ui, w) ==
    << AfterOverlay(a, ui, w),
       AfterWindow(a, AfterOverlay(a, ui, w)),
       AfterLibrary(AfterWindow(a, AfterOverlay(a, ui, w))) >>

\* the destructor running also on an instance whose constructor threw
Destructor_afterThrow ==
    /\ pc \in {"constructed", "returned", "failed"}
    /\ imgui' = IF app.initialized_ THEN shutdownImGui(imgui) ELSE imgui
    /\ glfw' = glfwTerminate(IF app.window_ THEN glfwDestroyWindow(glfw) ELSE glfw)
    /\ gl' = ContextLost(gl)
    /\ pc' = "destroyed"
    /\ UNCHANGED <<stbi, platform, files, fsChanges, app, res, obs, host, lastTick, lastLoad,
                   lastCall, mainExit>>

\* Application::~Application, on an instance whose construction completed
\* and while no run() is in progress
Destructor ==
    /\ pc \in {"constructed", "returned"}
    /\ \E done \in {DestructorSteps(app, imgui, glfw)[3]} :
           imgui' = done.imgui /\ glfw' = done.glfw
    /\ gl' = ContextLost(gl)
    /\ pc' = "destroyed"
    /\ UNCHANGED <<stbi, platform, files, fsChanges, app, res, obs, host, lastTick, lastLoad,
                   lastCall, mainExit>>

\* -------------------------------------------------------------- VibeGLApp
\* setupCubeGeometry, after the three names were generated
GeometryGenerated(r, vao, vbo, c) ==
    [ gl |-> glBindVertexArray(glBindVertexArray(c.gl, vao), 0),
      res |-> [r EXCEPT !.vao_ = vao, !.vbo_ = vbo, !.ebo_ = c.name] ]

VboGenerated(r, vao, b) == GeometryGenerated(r, vao, b.name, glGenBuffers(b.gl))

VaoGenerated(r, a) == VboGenerated(r, a.name, glGenBuffers(a.gl))

setupCubeGeometry(g, r) == VaoGenerated(r, glGenVertexArrays(g))

\* onInit, after setupCubeGeometry
GeometryReady(shaderResult, textureResult, geometry) ==
    [ gl |-> geometry.gl, stbi |-> textureResult.stbi, res |-> geometry.res,
      load |-> shaderResult,
      texture |-> [called |-> TRUE, result |-> textureResult.result],
      logged |-> textureResult.logged, loaded |-> 3 ]

\* onInit going on to the geometry after a failed texture load
AfterTextureLoad_goesOn(r, shaderResult, textureResult) ==
    GeometryReady(shaderResult, textureResult,
                  setupCubeGeometry(textureResult.gl,
                                    [r EXCEPT !.texture_ = textureResult.result]))

\* onInit, after the texture load; r holds the new shaderProgram_.  The
\* bare handle carries no message and no context for the line onInit logs
AfterTextureLoad(r, shaderResult, textureResult) ==
    IF textureResult.result = 0
    THEN [ gl |-> textureResult.gl, stbi |-> textureResult.stbi, res |-> r,
           load |-> shaderResult,
           texture |-> [called |-> TRUE, result |-> textureResult.result],
           logged |-> Append(textureResult.logged,
                             "Failed to load texture: " \o NoError.message
                                 \o " - " \o NoError.context),
           loaded |-> 1 ]
    ELSE GeometryReady(shaderResult, textureResult,
                       setupCubeGeometry(textureResult.gl,
                                         [r EXCEPT !.texture_ = textureResult.result]))

\* onInit, after the shader load
AfterShaderLoad(s, r, fs, shaderResult) ==
    IF ~ shaderResult.result.ok
    THEN [ gl |-> shaderResult.gl, stbi |-> s, res |-> r, load |-> shaderResult,
           texture |-> [called |-> FALSE, result |-> 0],
           logged |-> <<"Failed to create shader program: "
                          \o shaderResult.result.error.message \o " - "
                          \o shaderResult.result.error.context>>,
           loaded |-> 0 ]
    ELSE AfterTextureLoad([r EXCEPT !.shaderProgram_ = shaderResult.result.value],
                          shaderResult,
                          loadTexture(shaderResult.gl, s, fs,
                                      resolvePath("data/textures/sample.png"), TRUE))

\* loaded: 0 when the shader load failed, 1 when it succeeded and the
\* texture load failed, 3 when everything was created
onInit(g, s, r, fs, plat, verbose) ==
    AfterShaderLoad(s, r, fs,
                    loadProgram(g, fs, plat, "cube", resolvePath("data/shaders/"),
                                verbose))

renderCube(g, r) ==
    glBindVertexArray(
        glBindVertexArray(
            glBindTexture(glUseProgram(g, r.shaderProgram_), r.texture_),
            r.vao_),
        0)

\* onTick with endFrame called a second time
onTick_presentsTwice(w, g, r, deltaTime) ==
    [ gl |-> renderCube(g, r), glfw |-> endFrame(endFrame(w)), calls |-> 1,
      deltaTime |-> deltaTime, aspect |-> getAspectRatio(w),
      close |-> w.shouldClose ]

\* update, clear, renderCube, renderUI, endFrame; calls, deltaTime, aspect
\* and close record the invocation: its argument, and the aspect ratio and
\* the close flag as they are while the hook runs
onTick(w, g, r, deltaTime) ==
    [ gl |-> renderCube(g, r), glfw |-> endFrame(w), calls |-> 1,
      deltaTime |-> deltaTime, aspect |-> getAspectRatio(w),
      close |-> w.shouldClose ]

\* onShutdown without the call of TextureLoader::deleteTexture
onShutdown_keepsTexture(g, r) ==
    deleteProgram(
        glDeleteBuffers(
            glDeleteBuffers(glDeleteVertexArrays(g, r.vao_), r.vbo_),
            r.ebo_),
        r.shaderProgram_)

\* the handle fields keep their values
onShutdown(g, r) ==
    deleteProgram(
        deleteTexture(
            glDeleteBuffers(
                glDeleteBuffers(glDeleteVertexArrays(g, r.vao_), r.vbo_),
                r.ebo_),
            r.texture_),
        r.shaderProgram_)

\* ------------------------------------------------------------- main loop
\* tick with the frame abandoned when the close flag is set by the events
tick_cancelsMidFrame(clock, events) ==
    \E currentTime \in {ToFloat(clock)} :
    \E deltaTime \in {FSub(currentTime, app.lastFrameTime_)} :
    \E polled \in {glfwPollEvents([glfw EXCEPT !.time = clock], gl, events)} :
    \E ticked \in {IF polled.glfw.shouldClose
                   THEN [ gl |-> polled.gl, glfw |-> polled.glfw, calls |-> 0,
                          deltaTime |-> deltaTime,
                          aspect |-> getAspectRatio(polled.glfw),
                          close |-> TRUE ]
                   ELSE onTick(polled.glfw, polled.gl, res, deltaTime)} :
        /\ app' = [app EXCEPT !.lastFrameTime_ = currentTime]
        /\ glfw' = ticked.glfw
        /\ gl' = ticked.gl
        /\ obs' = [obs EXCEPT !.ticks = @ + 1, !.runTicks = @ + 1,
                              !.onTick = @ + ticked.calls,
                              !.deltaSum = @ + ticked.calls * ticked.deltaTime]
        /\ lastTick' = [ clock |-> clock, now |-> currentTime,
                         lastBefore |-> app.lastFrameTime_,
                         closeBefore |-> glfw.shouldClose,
                         onTicks |-> ticked.calls,
                         deltaTime |-> ticked.deltaTime,
                         closeAtOnTick |-> ticked.close,
                         aspectAtOnTick |-> ticked.aspect,
                         swaps |-> ticked.glfw.swaps - glfw.swaps,
                         closeEvents |-> AnyRequestsClose(events),
                         polls |-> ticked.glfw.polls - glfw.polls,
                         endFramePolls |-> ticked.glfw.polls - polled.glfw.polls ]

\* tick with lastFrameTime_ updated before deltaTime is computed
tick_updatesLastFrameTimeFirst(clock, events) ==
    \E currentTime \in {ToFloat(clock)} :
    \E deltaTime \in {FSub(currentTime, currentTime)} :
    \E polled \in {glfwPollEvents([glfw EXCEPT !.time = clock], gl, events)} :
    \E ticked \in {onTick(polled.glfw, polled.gl, res, deltaTime)} :
        /\ app' = [app EXCEPT !.lastFrameTime_ = currentTime]
        /\ glfw' = ticked.glfw
        /\ gl' = ticked.gl
        /\ obs' = [obs EXCEPT !.ticks = @ + 1, !.runTicks = @ + 1,
                              !.onTick = @ + ticked.calls,
                              !.deltaSum = @ + ticked.calls * ticked.deltaTime]
        /\ lastTick' = [ clock |-> clock, now |-> currentTime,
                         lastBefore |-> app.lastFrameTime_,
                         closeBefore |-> glfw.shouldClose,
                         onTicks |-> ticked.calls,
                         deltaTime |-> ticked.deltaTime,
                         closeAtOnTick |-> ticked.close,
                         aspectAtOnTick |-> ticked.aspect,
                         swaps |-> ticked.glfw.swaps - glfw.swaps,
                         closeEvents |-> AnyRequestsClose(events),
                         polls |-> ticked.glfw.polls - glfw.polls,
                         endFramePolls |-> ticked.glfw.polls - polled.glfw.polls ]

\* tick with lastFrameTime_ left as it is
tick_keepsLastFrameTime(clock, events) ==
    \E currentTime \in {ToFloat(clock)} :
    \E deltaTime \in {FSub(currentTime, app.lastFrameTime_)} :
    \E polled \in {glfwPollEvents([glfw EXCEPT !.time = clock], gl, events)} :
    \E ticked \in {onTick(polled.glfw, polled.gl, res, deltaTime)} :
        /\ app' = app
        /\ glfw' = ticked.glfw
        /\ gl' = ticked.gl
        /\ obs' = [obs EXCEPT !.ticks = @ + 1, !.runTicks = @ + 1,
                              !.onTick = @ + ticked.calls,
                              !.deltaSum = @ + ticked.calls * ticked.deltaTime]
        /\ lastTick' = [ clock |-> clock, now |-> currentTime,
                         lastBefore |-> app.lastFrameTime_,
                         closeBefore |-> glfw.shouldClose,
                         onTicks |-> ticked.calls,
                         deltaTime |-> ticked.deltaTime,
                         closeAtOnTick |-> ticked.close,
                         aspectAtOnTick |-> ticked.aspect,
                         swaps |-> ticked.glfw.swaps - glfw.swaps,
                         closeEvents |-> AnyRequestsClose(events),
                         polls |-> ticked.glfw.polls - glfw.polls,
                         endFramePolls |-> ticked.glfw.polls - polled.glfw.polls ]

\* Application::tick; clock is the value glfwGetTime returns, events the
\* input events glfwPollEvents delivers
tick(clock, events) ==
    \E currentTime \in {ToFloat(clock)} :
    \E deltaTime \in {FSub(currentTime, app.lastFrameTime_)} :
    \E polled \in {glfwPollEvents([glfw EXCEPT !.time = clock], gl, events)} :
    \E ticked \in {onTick(polled.glfw, polled.gl, res, deltaTime)} :
        /\ app' = [app EXCEPT !.lastFrameTime_ = currentTime]
        /\ glfw' = ticked.glfw
        /\ gl' = ticked.gl
        /\ obs' = [obs EXCEPT !.ticks = @ + 1, !.runTicks = @ + 1,
                              !.onTick = @ + ticked.calls,
                              !.deltaSum = @ + ticked.calls * ticked.deltaTime]
        /\ lastTick' = [ clock |-> clock, now |-> currentTime,
                         lastBefore |-> app.lastFrameTime_,
                         closeBefore |-> glfw.shouldClose,
                         onTicks |-> ticked.calls,
                         deltaTime |-> ticked.deltaTime,
                         closeAtOnTick |-> ticked.close,
                         aspectAtOnTick |-> ticked.aspect,
                         swaps |-> ticked.glfw.swaps - glfw.swaps,
                         closeEvents |-> AnyRequestsClose(events),
                         polls |-> ticked.glfw.polls - glfw.polls,
                         endFramePolls |-> ticked.glfw.polls - polled.glfw.polls ]

\* the web build entering the blocking loop as the desktop build does
MainLoopEntry_alwaysBlocking(plat) == "loop"

\* where run() goes after onInit: the web build registers the per-frame
\* callback with simulate_infinite_loop = 1, a call that does not return to
\* run() or to its caller; the desktop build enters the while loop
MainLoopEntry(plat) == IF plat = "web" THEN "hostLoop" ELSE "loop"

\* run() lowering the close flag before it enters the loop
Run_onInit_clearsClose ==
    /\ pc \in {"constructed", "returned"}
    /\ obs.runs < MaxRuns
    /\ \E verbose \in BOOLEAN :
       \E i \in {onInit(gl, stbi, res, files, platform, verbose)} :
           /\ gl' = i.gl
           /\ stbi' = i.stbi
           /\ res' = i.res
           /\ lastLoad' = [ called |-> TRUE, ok |-> i.load.result.ok,
                            steps |-> i.load.steps,
                            before |-> ObjectCount(gl),
                            after |-> ObjectCount(i.load.gl),
                            texture |-> i.texture, logged |-> Len(i.logged),
                            loaded |-> i.loaded ]
           /\ obs' = [obs EXCEPT !.runs = @ + 1, !.onInit = @ + 1,
                                 !.runTicks = 0, !.runShutdowns = 0,
                                 !.programsCreated = @ + (IF i.loaded >= 1 THEN 1 ELSE 0),
                                 !.texturesCreated = @ + (IF i.loaded >= 3 THEN 1 ELSE 0),
                                 !.geometryCreated = @ + (IF i.loaded >= 3 THEN 1 ELSE 0)]
    /\ glfw' = [glfw EXCEPT !.mainLoop = (MainLoopEntry(platform) = "hostLoop"),
                         !.shouldClose = FALSE]
    /\ pc' = MainLoopEntry(platform)
    /\ UNCHANGED <<platform, files, fsChanges, imgui, app, host, lastTick,
                   lastCall, mainExit>>

\* Application::run up to the loop: onInit, then the platform's main loop
Run_onInit ==
    /\ pc \in {"constructed", "returned"}
    /\ obs.runs < MaxRuns
    /\ \E verbose \in BOOLEAN :
       \E i \in {onInit(gl, stbi, res, files, platform, verbose)} :
           /\ gl' = i.gl
           /\ stbi' = i.stbi
           /\ res' = i.res
           /\ lastLoad' = [ called |-> TRUE, ok |-> i.load.result.ok,
                            steps |-> i.load.steps,
                            before |-> ObjectCount(gl),
                            after |-> ObjectCount(i.load.gl),
                            texture |-> i.texture, logged |-> Len(i.logged),
                            loaded |-> i.loaded ]
           /\ obs' = [obs EXCEPT !.runs = @ + 1, !.onInit = @ + 1,
                                 !.runTicks = 0, !.runShutdowns = 0,
                                 !.programsCreated = @ + (IF i.loaded >= 1 THEN 1 ELSE 0),
                                 !.texturesCreated = @ + (IF i.loaded >= 3 THEN 1 ELSE 0),
                                 !.geometryCreated = @ + (IF i.loaded >= 3 THEN 1 ELSE 0)]
    /\ glfw' = [glfw EXCEPT !.mainLoop = (MainLoopEntry(platform) = "hostLoop")]
    /\ pc' = MainLoopEntry(platform)
    /\ UNCHANGED <<platform, files, fsChanges, imgui, app, host, lastTick,
                   lastCall, mainExit>>

\* Application::run, onInit does not return: a stage failed to compile or
\* link and the driver left errorLog empty, so std::string(errorLog.data())
\* is built from the data() of an empty vector; where that is a null pointer
\* nothing catches the exception and the process is terminated
Run_onInitThrows ==
    /\ pc \in {"constructed", "returned"}
    /\ obs.runs < MaxRuns
    /\ \E i \in {onInit(gl, stbi, res, files, platform, FALSE)} :
           /\ ~ i.load.result.ok
           /\ i.load.result.error.context = ""
    /\ obs' = [obs EXCEPT !.runs = @ + 1, !.onInit = @ + 1,
                          !.runTicks = 0, !.runShutdowns = 0]
    /\ glfw' = [glfw EXCEPT !.inited = FALSE, !.window = FALSE]
    /\ gl' = ContextLost(gl)
    /\ pc' = "aborted"
    /\ UNCHANGED <<stbi, platform, files, fsChanges, imgui, app, res, host, lastTick, lastLoad,
                   lastCall, mainExit>>

\* the loop without its test of shouldQuit()
Run_tick_ignoresQuit ==
    /\ pc = "loop"
    /\ obs.ticks < MaxTicks
    /\ \E clock \in glfw.time..MaxTime, events \in SeqsUpTo(Events, MaxEvents) :
         tick(clock, events)
    /\ UNCHANGED <<stbi, platform, pc, files, fsChanges, imgui, res, host, lastLoad,
                   lastCall, mainExit>>

\* Application::run, desktop: one iteration of while (!shouldQuit()) tick()
Run_tick ==
    /\ pc = "loop"
    /\ ~ shouldQuit(glfw)
    /\ obs.ticks < MaxTicks
    /\ \E clock \in glfw.time..MaxTime, events \in SeqsUpTo(Events, MaxEvents) :
         tick(clock, events)
    /\ UNCHANGED <<stbi, platform, pc, files, fsChanges, imgui, res, host, lastLoad,
                   lastCall, mainExit>>

\* the end of run() clearing the close flag for a later run()
Run_onShutdown_clearsClose ==
    /\ pc = "loop"
    /\ shouldQuit(glfw)
    /\ gl' = onShutdown(gl, res)
    /\ glfw' = [glfw EXCEPT !.shouldClose = FALSE]
    /\ obs' = [obs EXCEPT !.onShutdown = @ + 1, !.runShutdowns = @ + 1]
    /\ pc' = "returned"
    /\ UNCHANGED <<stbi, platform, files, fsChanges, imgui, app, res, host, lastTick, lastLoad,
                   lastCall, mainExit>>

\* Application::run, desktop: the loop ends, onShutdown, return
Run_onShutdown ==
    /\ pc = "loop"
    /\ shouldQuit(glfw)
    /\ gl' = onShutdown(gl, res)
    /\ obs' = [obs EXCEPT !.onShutdown = @ + 1, !.runShutdowns = @ + 1]
    /\ pc' = "returned"
    /\ UNCHANGED <<stbi, platform, files, fsChanges, glfw, imgui, app, res, host, lastTick, lastLoad,
                   lastCall, mainExit>>

\* the callback returning without a tick once the close flag is set
emscriptenMainLoop_stopsOnQuit ==
    /\ pc = "hostLoop"
    /\ glfw.mainLoop
    /\ obs.ticks < MaxTicks
    /\ host.frames < MaxTicks
    /\ host' = [host EXCEPT !.frames = @ + 1]
    /\ IF shouldQuit(glfw)
       THEN UNCHANGED <<glfw, gl, app, obs, lastTick>>
       ELSE \E clock \in glfw.time..MaxTime : tick(clock, <<>>)
    /\ UNCHANGED <<stbi, platform, pc, files, fsChanges, imgui, res, lastLoad,
                   lastCall, mainExit>>

\* the callback consulting the close flag and cancelling the main loop
emscriptenMainLoop_cancelsOnQuit ==
    /\ pc = "hostLoop"
    /\ glfw.mainLoop
    /\ obs.ticks < MaxTicks
    /\ host' = [host EXCEPT !.frames = @ + 1]
    /\ IF shouldQuit(glfw)
       THEN /\ glfw' = [glfw EXCEPT !.mainLoop = FALSE]
            /\ UNCHANGED <<gl, app, obs, lastTick>>
       ELSE \E clock \in glfw.time..MaxTime : tick(clock, <<>>)
    /\ UNCHANGED <<stbi, platform, pc, files, fsChanges, imgui, res, lastLoad,
                   lastCall, mainExit>>

\* Application::emscriptenMainLoop: the host calls the registered callback
emscriptenMainLoop ==
    /\ pc = "hostLoop"
    /\ glfw.mainLoop
    /\ obs.ticks < MaxTicks
    /\ host' = [host EXCEPT !.frames = @ + 1]
    /\ \E clock \in glfw.time..MaxTime : tick(clock, <<>>)
    /\ UNCHANGED <<stbi, platform, pc, files, fsChanges, imgui, res, lastLoad,
                   lastCall, mainExit>>

\* web: the browser calls an input reaction between two frames
BrowserEvent ==
    /\ pc = "hostLoop"
    /\ \E e \in Events :
         \E st \in {Deliver([glfw |-> glfw, gl |-> gl], e)} :
             glfw' = st.glfw /\ gl' = st.gl
    /\ UNCHANGED <<stbi, platform, pc, files, fsChanges, imgui, app, res, obs, host, lastTick, lastLoad,
                   lastCall, mainExit>>

\* one of the files on disk changes between two run() calls
FileSystemChange ==
    /\ pc = "returned"
    /\ fsChanges < MaxFsChanges
    /\ obs.runs < MaxRuns
    /\ \E f \in FileSystems(platform) :
         /\ Cardinality({path \in DOMAIN files : f[path] # files[path]}) = 1
         /\ files' = f
    /\ fsChanges' = fsChanges + 1
    /\ UNCHANGED <<stbi, platform, pc, glfw, imgui, gl, app, res, obs, host, lastTick, lastLoad,
                   lastCall, mainExit>>

Next ==
    \/ Application_initWindow
    \/ Application_initOpenGL
    \/ Application_initImGui
    \/ Run_onInit
    \/ Run_onInitThrows
    \/ Run_tick
    \/ Run_onShutdown
    \/ emscriptenMainLoop
    \/ BrowserEvent
    \/ FileSystemChange
    \/ Destructor

Spec == Init /\ [][Next]_vars

\* ------------------------------------------ a clock that outgrows the float
\* the largest reading of the clock of a long session: readings above
\* 2^MantissaBits are not all representable in the float tick() casts to
LateTime == Pow2(MantissaBits) + 2

\* the application starts with its shader and texture files in place
InitLate ==
    /\ Init
    /\ files[VertPath(platform)] = "good"
    /\ files[FragPath(platform)] = "good"
    /\ files[TexturePath] = "image"

\* Application::run, desktop: one iteration of while (!shouldQuit()) tick()
\* in a long session
Run_tickLate ==
    /\ pc = "loop"
    /\ ~ shouldQuit(glfw)
    /\ obs.ticks < MaxTicks
    /\ \E clock \in glfw.time..LateTime, events \in SeqsUpTo(Events, MaxEvents) :
         tick(clock, events)
    /\ UNCHANGED <<stbi, platform, pc, files, fsChanges, imgui, res, host, lastLoad,
                   lastCall, mainExit>>

\* Application::emscriptenMainLoop in a long session
emscriptenMainLoopLate ==
    /\ pc = "hostLoop"
    /\ glfw.mainLoop
    /\ obs.ticks < MaxTicks
    /\ host' = [host EXCEPT !.frames = @ + 1]
    /\ \E clock \in glfw.time..LateTime : tick(clock, <<>>)
    /\ UNCHANGED <<stbi, platform, pc, files, fsChanges, imgui, res, lastLoad,
                   lastCall, mainExit>>

NextLate ==
    \/ Application_initWindow
    \/ Application_initOpenGL
    \/ Application_initImGui
    \/ Run_onInit
    \/ Run_tickLate
    \/ Run_onShutdown
    \/ emscriptenMainLoopLate
    \/ BrowserEvent
    \/ Destructor

SpecLate == InitLate /\ [][NextLate]_vars


\* ------------------------------------------------- calls made by a client
\* The loader utilities and the input reactions are functions of the
\* context, the files and their arguments.  Here a client that owns a
\* window with a current context calls them one at a time, keeps the handle
\* a loader returns, and sets its handle to 0 after passing it to a delete.
InitCalls ==
    /\ platform \in Platforms
    /\ pc = "client"
    /\ files \in ClientFileSystems(platform)
    /\ fsChanges = 0
    /\ glfw = initWindow(NoLibrary, WindowConfig, TRUE, TRUE).glfw
    /\ imgui = [alive |-> FALSE, shutdownCalls |-> 0]
    /\ gl = EmptyGL
    /\ app = [window_ |-> TRUE, lastFrameTime_ |-> 0, initialized_ |-> FALSE]
    /\ res = [shaderProgram_ |-> 0, texture_ |-> 0, vao_ |-> 0, vbo_ |-> 0, ebo_ |-> 0]
    /\ obs = [onInit |-> 0, onTick |-> 0, onShutdown |-> 0, ticks |-> 0,
              runs |-> 0, runTicks |-> 0, runShutdowns |-> 0,
              programsCreated |-> 0, texturesCreated |-> 0, geometryCreated |-> 0,
              deltaSum |-> 0]
    /\ host = [frames |-> 0]
    /\ lastTick = NoTick
    /\ lastLoad = NoLoad
    /\ lastCall = NoCall
    /\ mainExit = NotExited
    /\ stbi = NoStbi

\* the record of a call that returned
Called(op, args, returned, steps, after) ==
    [ count |-> lastCall.count + 1, op |-> op, args |-> args, verbose |-> FALSE,
      thrown |-> FALSE,
      returned |-> returned, steps |-> steps, glBefore |-> gl, glAfter |-> after,
      stbiBefore |-> stbi ]

Call_loadProgramFromFiles ==
    /\ pc = "client"
    /\ lastCall.count < MaxCalls
    /\ res.shaderProgram_ = 0
    /\ \E verbose \in BOOLEAN :
       \E r \in {loadProgramFromFiles(gl, files, VertPath(platform),
                                      FragPath(platform), verbose)} :
           /\ gl' = r.gl
           /\ res' = [res EXCEPT !.shaderProgram_ = r.result.value]
           /\ lastCall' = [Called("loadProgramFromFiles",
                                  <<VertPath(platform), FragPath(platform)>>,
                                  AsResult(r.result), r.steps, r.gl)
                             EXCEPT !.verbose = verbose]
    /\ UNCHANGED <<stbi, platform, pc, files, fsChanges, glfw, imgui, app, obs, host,
                   lastTick, lastLoad, mainExit>>

\* a stage failed to compile or link and the driver left errorLog empty:
\* std::string(errorLog.data()) is built from the data() of an empty vector;
\* where that is a null pointer the call does not return and, nothing
\* catching the exception, the process is terminated
Call_loadProgramFromFilesThrows ==
    /\ pc = "client"
    /\ lastCall.count < MaxCalls
    /\ res.shaderProgram_ = 0
    /\ \E r \in {loadProgramFromFiles(gl, files, VertPath(platform),
                                      FragPath(platform), FALSE)} :
           /\ ~ r.result.ok
           /\ r.result.error.context = ""
           /\ lastCall' = [Called("loadProgramFromFiles",
                                  <<VertPath(platform), FragPath(platform)>>,
                                  AsVoid, r.steps, ContextLost(gl))
                             EXCEPT !.thrown = TRUE]
    /\ glfw' = [glfw EXCEPT !.inited = FALSE, !.window = FALSE]
    /\ gl' = ContextLost(gl)
    /\ pc' = "terminated"
    /\ UNCHANGED <<stbi, platform, files, fsChanges, imgui, app, res, obs, host,
                   lastTick, lastLoad, mainExit>>

\* the base names and the directories a client passes to loadProgram: the
\* demo's own, and ones under which there is no file
BaseNames == {"cube", "quad"}
Directories == {resolvePath("data/shaders/"), "shaders/"}

Call_loadProgram ==
    /\ pc = "client"
    /\ lastCall.count < MaxCalls
    /\ res.shaderProgram_ = 0
    /\ \E baseName \in BaseNames, directory \in Directories, verbose \in BOOLEAN :
       \E r \in {loadProgram(gl, files, platform, baseName, directory, verbose)} :
           /\ gl' = r.gl
           /\ res' = [res EXCEPT !.shaderProgram_ = r.result.value]
           /\ lastCall' = [Called("loadProgram", <<baseName, directory>>,
                                  AsResult(r.result), r.steps, r.gl)
                             EXCEPT !.verbose = verbose]
    /\ UNCHANGED <<stbi, platform, pc, files, fsChanges, glfw, imgui, app, obs, host,
                   lastTick, lastLoad, mainExit>>

\* loadProgram does not return, for the reason loadProgramFromFiles does not
Call_loadProgramThrows ==
    /\ pc = "client"
    /\ lastCall.count < MaxCalls
    /\ res.shaderProgram_ = 0
    /\ \E baseName \in BaseNames, directory \in Directories :
       \E r \in {loadProgram(gl, files, platform, baseName, directory, FALSE)} :
           /\ ~ r.result.ok
           /\ r.result.error.context = ""
           /\ lastCall' = [Called("loadProgram", <<baseName, directory>>,
                                  AsVoid, r.steps, ContextLost(gl))
                             EXCEPT !.thrown = TRUE]
    /\ glfw' = [glfw EXCEPT !.inited = FALSE, !.window = FALSE]
    /\ gl' = ContextLost(gl)
    /\ pc' = "terminated"
    /\ UNCHANGED <<stbi, platform, files, fsChanges, imgui, app, res, obs, host,
                   lastTick, lastLoad, mainExit>>

Call_deleteProgram ==
    /\ pc = "client"
    /\ lastCall.count < MaxCalls
    /\ gl' = deleteProgram(gl, res.shaderProgram_)
    /\ res' = [res EXCEPT !.shaderProgram_ = 0]
    /\ lastCall' = Called("deleteProgram", <<res.shaderProgram_>>, AsVoid, <<>>,
                          deleteProgram(gl, res.shaderProgram_))
    /\ UNCHANGED <<stbi, platform, pc, files, fsChanges, glfw, imgui, app, obs, host,
                   lastTick, lastLoad, mainExit>>

Call_loadTexture ==
    /\ pc = "client"
    /\ lastCall.count < MaxCalls
    /\ res.texture_ = 0
    /\ \E flipVertically \in BOOLEAN :
       \E r \in {loadTexture(gl, stbi, files, TexturePath, flipVertically)} :
           /\ gl' = r.gl
           /\ stbi' = r.stbi
           /\ res' = [res EXCEPT !.texture_ = r.result]
           /\ lastCall' = Called("loadTexture", <<TexturePath, flipVertically>>,
                                 AsHandle(r.result), r.logged, r.gl)
    /\ UNCHANGED <<platform, pc, files, fsChanges, glfw, imgui, app, obs, host,
                   lastTick, lastLoad, mainExit>>

Call_deleteTexture ==
    /\ pc = "client"
    /\ lastCall.count < MaxCalls
    /\ gl' = deleteTexture(gl, res.texture_)
    /\ res' = [res EXCEPT !.texture_ = 0]
    /\ lastCall' = Called("deleteTexture", <<res.texture_>>, AsVoid, <<>>,
                          deleteTexture(gl, res.texture_))
    /\ UNCHANGED <<stbi, platform, pc, files, fsChanges, glfw, imgui, app, obs, host,
                   lastTick, lastLoad, mainExit>>

\* the library reports a key to the key reaction, the client then asks
\* shouldQuit()
Call_KeyCallback ==
    /\ pc = "client"
    /\ lastCall.count < MaxCalls
    /\ \E key \in Keys, action \in KeyActions :
           /\ glfw' = KeyCallback(glfw, key, action)
           /\ lastCall' = Called("KeyCallback", <<key, action>>,
                                 AsBool(shouldQuit(KeyCallback(glfw, key, action))),
                                 <<>>, gl)
    /\ UNCHANGED <<stbi, platform, pc, files, fsChanges, imgui, gl, app, res, obs, host,
                   lastTick, lastLoad, mainExit>>

NextCalls ==
    \/ Call_loadProgramFromFiles
    \/ Call_loadProgramFromFilesThrows
    \/ Call_loadProgram
    \/ Call_loadProgramThrows
    \/ Call_deleteProgram
    \/ Call_loadTexture
    \/ Call_deleteTexture
    \/ Call_KeyCallback

SpecCalls == InitCalls /\ [][NextCalls]_vars

\* ------------------------------------------------------- main.cpp, main()
\* main.cpp is the program written in one function, for the desktop target:
\* it owns the window, the overlay and the GPU resources itself and reports
\* how it went by the value main() returns.
main_VertPath == "shaders/cube.vert"
main_FragPath == "shaders/cube.frag"
main_TexturePath == "textures/sample.png"

main_FileSystems ==
    { f \in [{main_VertPath, main_FragPath, main_TexturePath} ->
                ShaderFileStates \cup ImageFileStates] :
        /\ f[main_VertPath] \in ShaderFileStates \ {"unlinkable"}
        /\ f[main_FragPath] \in ShaderFileStates
        /\ f[main_TexturePath] \in ImageFileStates }

\* the exit status the parent process sees: the low eight bits
ExitStatus(code) == code % 256

\* main() returns code from the return statement named by after
Returned(code, after) ==
    [exited |-> TRUE, code |-> code, status |-> ExitStatus(code), after |-> after]

\* compileShader of main.cpp, after glCreateShader returned the shader c
main_ShaderCreated(c, source) ==
    IF ~ Compiles(source)
    THEN [ gl |-> glDeleteShader(c.gl, c.name), shader |-> 0 ]
    ELSE [ gl |-> c.gl, shader |-> c.name ]

main_compileShader(g, type, source) == main_ShaderCreated(glCreateShader(g), source)

\* createShaderProgram, after the link of the program
main_Linked(g, vertShader, fragShader, program, linked) ==
    IF ~ linked
    THEN [ gl |-> glDeleteShader(glDeleteShader(glDeleteProgram(g, program),
                                                vertShader), fragShader),
           program |-> 0 ]
    ELSE [ gl |-> glDeleteShader(glDeleteShader(g, vertShader), fragShader),
           program |-> program ]

\* createShaderProgram, after glCreateProgram returned the program c
main_ProgramCreated(c, vertShader, fragShader, linked) ==
    main_Linked(glAttachShader(glAttachShader(c.gl, c.name, vertShader),
                               c.name, fragShader),
                vertShader, fragShader, c.name, linked)

\* createShaderProgram, after both stages went through compileShader
main_Compiled(vertShader, linked, frag) ==
    IF vertShader = 0 \/ frag.shader = 0
    THEN [ gl |-> glDeleteShader(glDeleteShader(frag.gl, vertShader), frag.shader),
           program |-> 0 ]
    ELSE main_ProgramCreated(glCreateProgram(frag.gl), vertShader, frag.shader,
                             linked)

\* createShaderProgram, after the vertex stage went through compileShader
main_VertexCompiled(vertSource, fragSource, vert) ==
    main_Compiled(vert.shader, Links(vertSource, fragSource),
                  main_compileShader(vert.gl, "GL_FRAGMENT_SHADER", fragSource))

\* readFile of main.cpp gives "" for a file it cannot open
main_createShaderProgram(g, fs, vertPath, fragPath) ==
    IF FileStatus(fs, vertPath) = "missing" \/ FileStatus(fs, fragPath) = "missing"
    THEN [ gl |-> g, program |-> 0 ]
    ELSE main_VertexCompiled(FileStatus(fs, vertPath), FileStatus(fs, fragPath),
                             main_compileShader(g, "GL_VERTEX_SHADER",
                                                FileStatus(fs, vertPath)))

\* loadTexture of main.cpp, after glGenTextures returned the texture c
main_TextureGenerated(c, s, data) ==
    [ gl |-> TextureSteps(c, s, data)[3].gl, stbi |-> TextureSteps(c, s, data)[3].stbi,
      result |-> c.name ]

\* loadTexture of main.cpp, after stbi_load returned data
main_ImageLoaded(g, s, data) ==
    IF data = <<>>
    THEN [ gl |-> g, stbi |-> s, result |-> 0 ]
    ELSE main_TextureGenerated(glGenTextures(g), BufferReturned(s), data)

main_loadTexture(g, s, fs, filepath) ==
    main_ImageLoaded(g, stbi_set_flip_vertically_on_load(s, TRUE),
                     stbi_load(stbi_set_flip_vertically_on_load(s, TRUE), fs, filepath))

\* main(): the vertex array and the two buffers
main_Geometry(g, r) == setupCubeGeometry(g, r)

\* main(): the five delete calls of the cleanup
main_DeleteResources(g, r) ==
    glDeleteProgram(
        glDeleteTextures(
            glDeleteBuffers(
                glDeleteBuffers(glDeleteVertexArrays(g, r.vao_), r.vbo_),
                r.ebo_),
            r.texture_),
        r.shaderProgram_)

InitMain ==
    /\ platform = "desktop"
    /\ pc = "main"
    /\ files \in main_FileSystems
    /\ fsChanges = 0
    /\ glfw = NoLibrary
    /\ imgui = [alive |-> FALSE, shutdownCalls |-> 0]
    /\ gl = EmptyGL
    /\ app = [window_ |-> FALSE, lastFrameTime_ |-> 0, initialized_ |-> FALSE]
    /\ res = [shaderProgram_ |-> 0, texture_ |-> 0, vao_ |-> 0, vbo_ |-> 0, ebo_ |-> 0]
    /\ obs = [onInit |-> 0, onTick |-> 0, onShutdown |-> 0, ticks |-> 0,
              runs |-> 0, runTicks |-> 0, runShutdowns |-> 0,
              programsCreated |-> 0, texturesCreated |-> 0, geometryCreated |-> 0,
              deltaSum |-> 0]
    /\ host = [frames |-> 0]
    /\ lastTick = NoTick
    /\ lastLoad = NoLoad
    /\ lastCall = NoCall
    /\ mainExit = NotExited
    /\ stbi = NoStbi

\* main(): glfwInit and glfwCreateWindow, callbacks, vsync
main_createWindow ==
    /\ pc = "main"
    /\ \E initOk \in BOOLEAN, windowOk \in BOOLEAN :
         IF ~ initOk
         THEN /\ mainExit' = Returned(-1, "glfwInit")
              /\ pc' = "exited"
              /\ UNCHANGED glfw
         ELSE IF ~ windowOk
         THEN /\ glfw' = glfwTerminate([glfw EXCEPT !.inited = TRUE])
              /\ mainExit' = Returned(-1, "glfwCreateWindow")
              /\ pc' = "exited"
         ELSE /\ glfw' = [glfw EXCEPT !.inited = TRUE, !.window = TRUE,
                                      !.fb = <<1280, 720>>, !.callbacks = TRUE,
                                      !.swapInterval = 1]
              /\ pc' = "main_glad"
              /\ UNCHANGED mainExit
    /\ UNCHANGED <<stbi, platform, files, fsChanges, imgui, gl, app, res, obs, host,
                   lastTick, lastLoad, lastCall>>

\* main(): gladLoadGLLoader, then the overlay
main_gladLoadGLLoader ==
    /\ pc = "main_glad"
    /\ \E gladOk \in BOOLEAN :
         IF ~ gladOk
         THEN /\ glfw' = glfwTerminate(glfwDestroyWindow(glfw))
              /\ gl' = ContextLost(gl)
              /\ mainExit' = Returned(-1, "gladLoadGLLoader")
              /\ pc' = "exited"
              /\ UNCHANGED imgui
         ELSE /\ imgui' = initImGui(imgui)
              /\ pc' = "main_resources"
              /\ UNCHANGED <<glfw, gl, mainExit>>
    /\ UNCHANGED <<stbi, platform, files, fsChanges, app, res, obs, host,
                   lastTick, lastLoad, lastCall>>

\* main(): createShaderProgram, loadTexture, the geometry
main_loadResources ==
    /\ pc = "main_resources"
    /\ \E p \in {main_createShaderProgram(gl, files, main_VertPath, main_FragPath)} :
       \E t \in {main_loadTexture(p.gl, stbi, files, main_TexturePath)} :
         IF p.program = 0
         THEN /\ imgui' = shutdownImGui(imgui)
              /\ glfw' = glfwTerminate(glfwDestroyWindow(glfw))
              /\ gl' = ContextLost(p.gl)
              /\ mainExit' = Returned(-1, "createShaderProgram")
              /\ pc' = "exited"
              /\ UNCHANGED <<res, stbi>>
         ELSE IF t.result = 0
         THEN /\ imgui' = shutdownImGui(imgui)
              /\ glfw' = glfwTerminate(glfwDestroyWindow(glfw))
              /\ gl' = ContextLost(glDeleteProgram(t.gl, p.program))
              /\ mainExit' = Returned(-1, "loadTexture")
              /\ stbi' = t.stbi
              /\ pc' = "exited"
              /\ UNCHANGED res
         ELSE \E geometry \in
                  {main_Geometry(t.gl, [res EXCEPT !.shaderProgram_ = p.program,
                                                   !.texture_ = t.result])} :
              /\ gl' = geometry.gl
              /\ stbi' = t.stbi
              /\ res' = geometry.res
              /\ pc' = "main_loop"
              /\ UNCHANGED <<imgui, glfw, mainExit>>
    /\ UNCHANGED <<platform, files, fsChanges, app, obs, host,
                   lastTick, lastLoad, lastCall>>

\* main(): createShaderProgram does not return: a stage failed to compile or
\* the program failed to link with an empty errorLog, and spdlog::error
\* formats errorLog.data() of an empty vector as a C string; where reading
\* it faults the process is terminated before any return statement
main_loadResourcesAborts ==
    /\ pc = "main_resources"
    /\ FileStatus(files, main_VertPath) # "missing"
    /\ FileStatus(files, main_FragPath) # "missing"
    /\ \/ ~ Compiles(FileStatus(files, main_VertPath))
       \/ ~ Compiles(FileStatus(files, main_FragPath))
       \/ ~ Links(FileStatus(files, main_VertPath), FileStatus(files, main_FragPath))
    /\ glfw' = [glfw EXCEPT !.inited = FALSE, !.window = FALSE]
    /\ gl' = ContextLost(gl)
    /\ pc' = "aborted"
    /\ UNCHANGED <<stbi, platform, files, fsChanges, imgui, app, res, obs, host,
                   lastTick, lastLoad, lastCall, mainExit>>

\* main(): one iteration of while (glfwWindowShouldClose(window) == 0)
main_frame ==
    /\ pc = "main_loop"
    /\ ~ glfw.shouldClose
    /\ obs.ticks < MaxTicks
    /\ \E clock \in glfw.time..MaxTime, events \in SeqsUpTo(Events, MaxEvents) :
       \E polled \in {glfwPollEvents([glfw EXCEPT !.time = clock], gl, events)} :
           /\ app' = [app EXCEPT !.lastFrameTime_ = ToFloat(clock)]
           /\ gl' = renderCube(polled.gl, res)
           /\ glfw' = glfwSwapBuffers(polled.glfw)
    /\ obs' = [obs EXCEPT !.ticks = @ + 1]
    /\ UNCHANGED <<stbi, platform, pc, files, fsChanges, imgui, res, host,
                   lastTick, lastLoad, lastCall, mainExit>>

\* main(): the loop ended; cleanup, return 0
main_cleanup ==
    /\ pc = "main_loop"
    /\ glfw.shouldClose
    /\ imgui' = shutdownImGui(imgui)
    /\ glfw' = glfwTerminate(glfwDestroyWindow(glfw))
    /\ gl' = ContextLost(main_DeleteResources(gl, res))
    /\ mainExit' = Returned(0, "cleanup")
    /\ pc' = "exited"
    /\ UNCHANGED <<stbi, platform, files, fsChanges, app, res, obs, host,
                   lastTick, lastLoad, lastCall>>

NextMain ==
    \/ main_createWindow
    \/ main_gladLoadGLLoader
    \/ main_loadResources
    \/ main_loadResourcesAborts
    \/ main_frame
    \/ main_cleanup

SpecMain == InitMain /\ [][NextMain]_vars

\* ================================================================ claims

\* C1: on the desktop target run() ticks only while shouldQuit() is false,
\* ends the loop only once shouldQuit() is true, then invokes onShutdown
\* exactly once, and no tick follows onShutdown within that run().
C1_LoopThenShutdownOnce ==
    /\ [](platform = "desktop" /\ pc = "returned"
            => obs.runShutdowns = 1 /\ shouldQuit(glfw))
    /\ [][platform = "desktop" =>
            /\ (obs'.ticks # obs.ticks =>
                    /\ pc = "loop" /\ pc' = "loop"
                    /\ ~ shouldQuit(glfw)
                    /\ obs.runShutdowns = 0 /\ obs'.runShutdowns = 0
                    /\ obs'.ticks = obs.ticks + 1)
            /\ (obs'.onShutdown # obs.onShutdown =>
                    /\ pc = "loop" /\ pc' = "returned"
                    /\ shouldQuit(glfw)
                    /\ obs'.onShutdown = obs.onShutdown + 1
                    /\ obs.runShutdowns = 0 /\ obs'.runShutdowns = 1
                    /\ obs'.ticks = obs.ticks)
            /\ (pc = "loop" /\ pc' # "loop" => obs'.onShutdown = obs.onShutdown + 1)
       ]_vars

\* a run() that ticked, saw the close flag and returned after onShutdown
C1_Witness ==
    /\ platform = "desktop" /\ pc = "returned"
    /\ obs.runTicks = 2 /\ obs.runShutdowns = 1

C3_FailedConstructionReleasesAll ==
    pc = "failed" =>
        /\ ~ glfw.window /\ ~ glfw.inited
        /\ gl.shaders = {} /\ gl.programs = {} /\ gl.textures = {}
        /\ ~ app.initialized_ /\ ~ imgui.alive
        /\ obs.runs = 0
        /\ obs.onInit = 0 /\ obs.onTick = 0 /\ obs.onShutdown = 0

\* the graphics-context loader failed after the window was created
C3_Witness ==
    /\ pc = "failed"
    /\ glfw.destroyCalls = 1 /\ glfw.terminateCalls = 1
    /\ app.window_

\* C4: as claimed, over any sequence of run() calls each GPU resource is
\* created at most once and no non-zero handle is deleted twice.
C4_CreatedOnceDeletedOnce ==
    /\ obs.programsCreated <= 1
    /\ obs.texturesCreated <= 1
    /\ obs.geometryCreated <= 1
    /\ ~ gl.staleDelete

\* C5: as claimed, onInit is invoked exactly once per constructed
\* instance however many times run() is called.
C5_OnInitOnce ==
    /\ obs.onInit <= 1
    /\ (obs.runs > 0 => obs.onInit = 1)
    /\ (obs.onTick > 0 => obs.onInit = 1)

\* the run-state of the instance, from the position of its owner
RunState ==
    IF pc = "start" THEN "Uninitialized"
    ELSE IF pc \in {"initOpenGL", "initImGui"} THEN "Initializing"
    ELSE IF pc = "failed" THEN "FailedInit"
    ELSE IF pc = "destroyed" THEN "Terminated"
    ELSE IF obs.onShutdown > 0 THEN "ShuttingDown"
    ELSE "Running"

RunStateRank(st) ==
    CASE st = "Uninitialized" -> 0
      [] st = "Initializing" -> 1
      [] st = "Running" -> 2
      [] st = "FailedInit" -> 2
      [] st = "ShuttingDown" -> 3
      [] st = "Terminated" -> 4

C7_CancelAtFrameBoundary ==
    [][platform = "desktop" =>
            /\ (~ glfw.shouldClose /\ glfw'.shouldClose =>
                    /\ obs'.ticks = obs.ticks + 1
                    /\ obs'.onTick = obs.onTick + 1
                    /\ lastTick'.onTicks = 1
                    /\ lastTick'.closeAtOnTick
                    /\ lastTick'.swaps = 1)
            /\ (glfw.shouldClose => obs'.ticks = obs.ticks /\ obs'.onTick = obs.onTick)
      ]_vars

\* the escape key was pressed during the second tick of a run
C7_Witness ==
    /\ platform = "desktop" /\ glfw.shouldClose
    /\ obs.runTicks = 2 /\ lastTick.closeAtOnTick /\ ~ lastTick.closeBefore
    /\ lastTick.onTicks = 1 /\ pc = "returned"

\* C8: on the web target onShutdown is never invoked.
C8_WebNeverShutsDown ==
    platform = "web" => obs.onShutdown = 0 /\ obs.runShutdowns = 0

\* frames issued by the host with the close flag set
C8_Witness ==
    /\ platform = "web" /\ glfw.shouldClose /\ lastTick.closeBefore
    /\ host.frames = 2 /\ obs.onShutdown = 0

C10_TickOrder ==
    /\ [](obs.ticks = 0 => app.lastFrameTime_ = 0)
    /\ [][obs'.ticks # obs.ticks =>
            /\ lastTick'.now = ToFloat(glfw'.time)
            /\ lastTick'.deltaTime = FSub(lastTick'.now, app.lastFrameTime_)
            /\ app'.lastFrameTime_ = lastTick'.now
            /\ lastTick'.onTicks = 1 /\ obs'.onTick = obs.onTick + 1
            /\ lastTick'.closeAtOnTick = glfw'.shouldClose
            /\ lastTick'.aspectAtOnTick = getAspectRatio(glfw')
            /\ (obs.ticks = 0 => lastTick'.deltaTime = lastTick'.now)
       ]_vars

\* a second tick whose deltaTime is less than its clock reading, after
\* events that changed the framebuffer size
C10_Witness ==
    /\ obs.ticks = 2
    /\ lastTick.lastBefore > 0
    /\ lastTick.deltaTime > 0 /\ lastTick.deltaTime < lastTick.now
    /\ lastTick.aspectAtOnTick = <<800, 600>>

\* text contains part as a substring
Contains(text, part) ==
    \E i \in 1..(Len(text) - Len(part) + 1) :
        SubSeq(text, i, i + Len(part) - 1) = part

\* C11: shouldQuit() is true exactly when the close flag of the window is
\* set, and the key reaction sets the flag exactly for a press of Escape:
\* for every other key or action it leaves the window as it is.
C11_QuitIffCloseFlag ==
    /\ [](/\ shouldQuit(glfw) = glfw.shouldClose
          /\ \A key \in Keys, action \in KeyActions :
                IF key = GLFW_KEY_ESCAPE /\ action = GLFW_PRESS
                THEN KeyCallback(glfw, key, action).shouldClose
                ELSE KeyCallback(glfw, key, action) = glfw)
    /\ [][lastCall'.count # lastCall.count /\ lastCall'.op = "KeyCallback" =>
            /\ glfw'.shouldClose =
                  (glfw.shouldClose
                      \/ lastCall'.args = <<GLFW_KEY_ESCAPE, GLFW_PRESS>>)
            /\ lastCall'.returned.ok = glfw'.shouldClose
            /\ (lastCall'.args # <<GLFW_KEY_ESCAPE, GLFW_PRESS>> => glfw' = glfw)
       ]_vars

\* the first call reports a press of Escape and shouldQuit() turns true
C11_Witness ==
    /\ lastCall.count = 1 /\ lastCall.op = "KeyCallback"
    /\ lastCall.args = <<GLFW_KEY_ESCAPE, GLFW_PRESS>>
    /\ lastCall.returned.ok /\ shouldQuit(glfw)

C13_DecodeFailureIsResult ==
    lastCall.op = "loadTexture" /\ FileStatus(files, TexturePath) # "image" =>
        /\ lastCall.returned.kind = "Result"
        /\ ~ lastCall.returned.ok
        /\ lastCall.returned.error.message # ""
        /\ Contains(lastCall.returned.error.context, TexturePath)

\* C14: loadProgramFromFiles on an unreadable file returns the read failure
\* whose context contains the path of the first file that could not be read
\* (the vertex path when both are missing), executes no compile or link
\* step and leaves the context as it was: no object is created, not even
\* one that is deleted again.
C14_ReadFailureCreatesNothing ==
    lastCall.op = "loadProgramFromFiles"
        /\ "missing" \in {FileStatus(files, lastCall.args[1]),
                          FileStatus(files, lastCall.args[2])} =>
        /\ ~ lastCall.thrown
        /\ lastCall.returned.kind = "Result" /\ ~ lastCall.returned.ok
        /\ lastCall.returned.error.message = "Failed to open shader file"
        /\ lastCall.glAfter = lastCall.glBefore
        /\ IF FileStatus(files, lastCall.args[1]) = "missing"
           THEN /\ Contains(lastCall.returned.error.context, lastCall.args[1])
                /\ ~ Contains(lastCall.returned.error.context, lastCall.args[2])
                /\ lastCall.steps = <<"readVert">>
           ELSE /\ Contains(lastCall.returned.error.context, lastCall.args[2])
                /\ ~ Contains(lastCall.returned.error.context, lastCall.args[1])
                /\ lastCall.steps = <<"readVert", "readFrag">>

\* both files are missing and the failure names the vertex path
C14_Witness ==
    /\ lastCall.op = "loadProgramFromFiles"
    /\ FileStatus(files, lastCall.args[1]) = "missing"
    /\ FileStatus(files, lastCall.args[2]) = "missing"
    /\ ~ lastCall.returned.ok
    /\ Contains(lastCall.returned.error.context, VertPath(platform))
    /\ lastCall.glAfter = EmptyGL

\* C15: as claimed, a stage that fails to compile makes loadProgramFromFiles
\* return a failure whose message names that stage and whose context is a
\* non-empty diagnostic log.
C15_CompileFailureNamesStageWithLog ==
    lastCall.op = "loadProgramFromFiles"
        /\ FileStatus(files, lastCall.args[1]) # "missing"
        /\ FileStatus(files, lastCall.args[2]) # "missing"
        /\ (~ Compiles(FileStatus(files, lastCall.args[1]))
               \/ ~ Compiles(FileStatus(files, lastCall.args[2]))) =>
        /\ ~ lastCall.thrown
        /\ ~ lastCall.returned.ok
        /\ lastCall.returned.error.message =
              (IF ~ Compiles(FileStatus(files, lastCall.args[1]))
               THEN "vertex" ELSE "fragment") \o " shader compilation failed"
        /\ lastCall.returned.error.context # ""

\* the objects a loadProgramFromFiles call left behind that were not there
\* before it
NewShaders(call) == call.glAfter.shaders \ call.glBefore.shaders
NewPrograms(call) == call.glAfter.programs \ call.glBefore.programs

C17_DeleteZeroIsNoOp ==
    /\ deleteProgram(gl, 0) = gl
    /\ deleteTexture(gl, 0) = gl
    /\ (lastCall.op \in {"deleteProgram", "deleteTexture"} /\ lastCall.args = <<0>>
           => lastCall.glAfter = lastCall.glBefore)
    /\ ~ gl.staleDelete

\* a program and a texture were loaded, the texture was deleted and its
\* handle set to 0, and deleteTexture was called again with the handle
C17_Witness ==
    /\ lastCall.count = 4
    /\ lastCall.op = "deleteTexture" /\ lastCall.args = <<0>>
    /\ <<"texture", 1>> \in lastCall.glBefore.released
    /\ res.shaderProgram_ # 0 /\ res.shaderProgram_ \in gl.programs
    /\ lastCall.glAfter = lastCall.glBefore

\* C18: as claimed, no handle is bound, drawn with or passed to a delete
\* call after it was deleted.
C18_NoHandleUsedAfterDelete ==
    ~ gl.staleUse /\ ~ gl.staleDelete

\* C19: getAspectRatio() is width / height of the framebuffer when the
\* height is positive and exactly 1 when the height is 0, whatever size
\* the resize events have left.
C19_AspectRatio ==
    glfw.window =>
        IF glfw.fb[2] = 0
        THEN getAspectRatio(glfw) = <<1, 1>>
        ELSE /\ glfw.fb[2] > 0
             /\ getAspectRatio(glfw)[2] > 0
             /\ getAspectRatio(glfw)[1] * glfw.fb[2]
                   = getAspectRatio(glfw)[2] * glfw.fb[1]
             /\ getAspectRatio(glfw) # <<1, 1>>

\* a tick whose events resized the framebuffer to height 0
C19_Witness ==
    /\ glfw.window /\ glfw.fb = <<0, 0>>
    /\ obs.ticks = 2 /\ lastTick.onTicks = 1
    /\ lastTick.aspectAtOnTick = <<1, 1>>
    /\ getAspectRatio(glfw) = <<1, 1>>

\* C20: as claimed, main() ends the process with status 0 after a normal
\* shutdown and with status 1 after an initialization failure.
C20_ExitCodes ==
    mainExit.exited =>
        IF mainExit.after = "cleanup"
        THEN mainExit.status = 0
        ELSE mainExit.status = 1

\* C21: every tick runs onTick once and onTick calls endFrame once, so one
\* frame is presented per tick; a tick whose events hold no press of Escape
\* and no close request leaves the close flag as it was, so shouldQuit()
\* is still false after a tick that started with it false.
C21_EndFrameOncePerTick ==
    [][obs'.ticks # obs.ticks =>
          /\ obs'.onTick = obs.onTick + 1
          /\ lastTick'.onTicks = 1
          /\ lastTick'.swaps = 1
          /\ glfw'.swaps = glfw.swaps + 1
          /\ (~ lastTick'.closeEvents =>
                  /\ glfw'.shouldClose = glfw.shouldClose
                  /\ (~ shouldQuit(glfw) => ~ shouldQuit(glfw')))
       ]_vars

\* a second tick whose only event resized the framebuffer: one frame
\* presented by each tick, shouldQuit() still false
C21_Witness ==
    /\ pc = "loop" /\ obs.ticks = 2 /\ obs.onTick = 2
    /\ lastTick.swaps = 1 /\ glfw.swaps = 2
    /\ ~ lastTick.closeEvents /\ glfw.fb = <<800, 600>>
    /\ ~ shouldQuit(glfw)

\* the result, the steps and the context a call of loadProgramFromFiles on
\* the two paths hands back, from the context the recorded call started in
FromFiles(call, vertPath, fragPath, verbose) ==
    loadProgramFromFiles(call.glBefore, files, vertPath, fragPath, verbose)

\* C22: loadProgram(baseName, directory) hands back what
\* loadProgramFromFiles hands back for directory + baseName + suffix +
\* ".vert" and directory + baseName + suffix + ".frag", where the suffix is
\* "_gl46" on the desktop target and "_es3" on the web target, the same in
\* both paths: the same result, the same steps, the same context after.
C22_LoadProgramDelegates ==
    lastCall.op = "loadProgram" =>
        \E suffix \in {IF platform = "web" THEN "_es3" ELSE "_gl46"} :
        \E vertPath \in {lastCall.args[2] \o lastCall.args[1] \o suffix \o ".vert"} :
        \E fragPath \in {lastCall.args[2] \o lastCall.args[1] \o suffix \o ".frag"} :
            IF lastCall.thrown
            THEN /\ ~ FromFiles(lastCall, vertPath, fragPath, FALSE).result.ok
                 /\ FromFiles(lastCall, vertPath, fragPath, FALSE).result.error.context = ""
            ELSE \E verbose \in BOOLEAN :
                    /\ lastCall.returned
                          = AsResult(FromFiles(lastCall, vertPath, fragPath, verbose).result)
                    /\ lastCall.steps = FromFiles(lastCall, vertPath, fragPath, verbose).steps
                    /\ lastCall.glAfter = FromFiles(lastCall, vertPath, fragPath, verbose).gl

\* loadProgram("cube", "data/shaders/") with the vertex file there and the
\* fragment file missing: the failure names the fragment path, with the
\* suffix of the target in it
C22_Witness ==
    /\ lastCall.op = "loadProgram" /\ lastCall.args = <<"cube", "data/shaders/">>
    /\ FileStatus(files, VertPath(platform)) # "missing"
    /\ FileStatus(files, FragPath(platform)) = "missing"
    /\ ~ lastCall.returned.ok
    /\ lastCall.steps = <<"readVert", "readFrag">>
    /\ Contains(lastCall.returned.error.context,
                IF platform = "web" THEN "data/shaders/cube_es3.frag"
                                    ELSE "data/shaders/cube_gl46.frag")

\* the rows of the image the texture t holds in the context g
TextureRows(g, t) == (CHOOSE im \in g.images : im[1] = t)[2]

\* the pixel px of an image file as red, green, blue, alpha
AsRGBA(px) ==
    IF Len(px) = 4 THEN px
    ELSE IF Len(px) = 3 THEN px \o <<255>>
    ELSE <<px[1], px[1], px[1], 255>>

\* C23: loadTexture on a file that holds an image returns a non-zero handle
\* of a texture of the context whose image has the rows of the file, every
\* pixel as red, green, blue, alpha: row y of the texture is row
\* height + 1 - y of the file when flipVertically is true and row y of the
\* file when it is false.
C23_TextureHoldsSourcePixels ==
    lastCall.op = "loadTexture" /\ Decodes(FileStatus(files, lastCall.args[1])) =>
        \E source \in {ImageData(FileStatus(files, lastCall.args[1]))} :
            /\ lastCall.returned.value # 0
            /\ lastCall.returned.value \in lastCall.glAfter.textures
            /\ lastCall.returned.value \notin lastCall.glBefore.textures
            /\ \E im \in lastCall.glAfter.images : im[1] = lastCall.returned.value
            /\ \E rows \in {TextureRows(lastCall.glAfter, lastCall.returned.value)} :
                  /\ Len(rows) = Len(source)
                  /\ \A y \in 1..Len(rows) :
                        \E from \in {IF lastCall.args[2] THEN Len(source) + 1 - y
                                                          ELSE y} :
                            /\ Len(rows[y]) = Len(source[from])
                            /\ \A x \in 1..Len(rows[y]) :
                                  rows[y][x] = AsRGBA(source[from][x])

\* a three-channel image of two rows loaded with flipVertically true after
\* a load with flipVertically false: the bottom row of the file is the
\* first row of the texture
C23_Witness ==
    /\ lastCall.op = "loadTexture" /\ lastCall.count = 3
    /\ lastCall.args = <<TexturePath, TRUE>>
    /\ FileStatus(files, TexturePath) = "rgb"
    /\ lastCall.returned.value # 0
    /\ ~ (\E im \in lastCall.glBefore.images : TRUE)
    /\ TextureRows(gl, res.texture_)
          = << << <<7, 8, 9, 255>>, <<10, 11, 12, 255>> >>,
               << <<1, 2, 3, 255>>, <<4, 5, 6, 255>> >> >>

\* what the caller of a loader learns: success, or the failure's message
\* and context
Outcome(result) ==
    [ok |-> result.ok, message |-> result.error.message,
     context |-> result.error.context]

\* C24: whatever calls a client made before, a loadProgramFromFiles call
\* that returns gives the outcome (success, or the failure's message and
\* context) and executes the steps of the same call made in a context no
\* call was made in, with the same files and the same driver; so does
\* loadProgram.
C24_ShaderManagerStateless ==
    /\ (lastCall.op = "loadProgramFromFiles" /\ ~ lastCall.thrown =>
            \E fresh \in {loadProgramFromFiles(EmptyGL, files, lastCall.args[1],
                                               lastCall.args[2], lastCall.verbose)} :
                /\ Outcome(lastCall.returned) = Outcome(fresh.result)
                /\ lastCall.steps = fresh.steps
                /\ ObjectCount(lastCall.glAfter) - ObjectCount(lastCall.glBefore)
                      = ObjectCount(fresh.gl))
    /\ (lastCall.op = "loadProgram" /\ ~ lastCall.thrown =>
            \E fresh \in {loadProgram(EmptyGL, files, platform, lastCall.args[1],
                                      lastCall.args[2], lastCall.verbose)} :
                /\ Outcome(lastCall.returned) = Outcome(fresh.result)
                /\ lastCall.steps = fresh.steps)

\* the same load repeated after a load that failed to compile and released
\* its shader objects: the same failure, with the driver's diagnostic
C24_Witness ==
    /\ lastCall.op = "loadProgramFromFiles" /\ lastCall.count >= 2
    /\ lastCall.glBefore.released # {}
    /\ ~ lastCall.returned.ok /\ lastCall.verbose
    /\ lastCall.returned.error.message = "fragment shader compilation failed"
    /\ lastCall.returned.error.context = InfoLog("bad")

\* C25: as claimed, endFrame() swaps the buffers and polls the events: the
\* endFrame call of a tick is one buffer swap and one glfwPollEvents call.
C25_EndFrameSwapsAndPolls ==
    lastTick.onTicks = 1 =>
        /\ lastTick.swaps = 1 /\ lastTick.endFramePolls = 1
        /\ endFrame(glfw).swaps = glfw.swaps + 1
        /\ endFrame(glfw).polls = glfw.polls + 1

\* the steps of loadProgramFromFiles in their order
LoadSteps == <<"readVert", "readFrag", "compileVert", "compileFrag", "link">>

\* the first step that fails for the two files, 0 when none does
FirstFailingStep(vertFile, fragFile) ==
    IF vertFile = "missing" THEN 1
    ELSE IF fragFile = "missing" THEN 2
    ELSE IF ~ Compiles(vertFile) THEN 3
    ELSE IF ~ Compiles(fragFile) THEN 4
    ELSE IF ~ Links(vertFile, fragFile) THEN 5
    ELSE 0

\* the message of the failure of step k
StepMessage(k) ==
    CASE k \in {1, 2} -> "Failed to open shader file"
      [] k = 3 -> "vertex shader compilation failed"
      [] k = 4 -> "fragment shader compilation failed"
      [] k = 5 -> "Shader program linking failed"
      [] OTHER -> ""

\* C26: loadProgramFromFiles executes read vertex file, read fragment file,
\* compile vertex, compile fragment, link, in this order, up to and
\* including the first step that fails and no step after it; a call that
\* returns returns the failure of that step, or success when no step
\* fails.
C26_FirstFailingStepEndsLoad ==
    lastCall.op = "loadProgramFromFiles" =>
        \E k \in {FirstFailingStep(FileStatus(files, lastCall.args[1]),
                                   FileStatus(files, lastCall.args[2]))} :
            /\ lastCall.steps = SubSeq(LoadSteps, 1, IF k = 0 THEN 5 ELSE k)
            /\ (lastCall.thrown => k \in {3, 4, 5})
            /\ (~ lastCall.thrown =>
                    /\ lastCall.returned.ok = (k = 0)
                    /\ lastCall.returned.error.message = StepMessage(k)
                    /\ (k \in {1, 2} =>
                            Contains(lastCall.returned.error.context,
                                     lastCall.args[k]))
                    /\ (k \in {1, 2} => lastCall.glAfter = lastCall.glBefore))

\* neither stage compiles: the call ends with the failure of the vertex
\* stage, and the fragment stage was not compiled
C26_Witness ==
    /\ lastCall.op = "loadProgramFromFiles" /\ ~ lastCall.thrown
    /\ ~ Compiles(FileStatus(files, lastCall.args[1]))
    /\ ~ Compiles(FileStatus(files, lastCall.args[2]))
    /\ lastCall.steps = <<"readVert", "readFrag", "compileVert">>
    /\ lastCall.returned.error.message = "vertex shader compilation failed"

\* C27: a constructor that throws has destroyed the window exactly once if
\* it had created one and not at all otherwise, has terminated the
\* windowing library at most once (exactly once when the graphics loader
\* failed), and has not shut the UI overlay down; nothing runs on the
\* instance afterwards, so the destructor's cleanup is not added to it.
C27_FailedConstructionReleasesOnce ==
    /\ [](pc = "failed" =>
            /\ glfw.destroyCalls = (IF app.window_ THEN 1 ELSE 0)
            /\ glfw.terminateCalls <= 1
            /\ (app.window_ => glfw.terminateCalls = 1)
            /\ imgui.shutdownCalls = 0 /\ ~ imgui.alive
            /\ ~ glfw.window /\ ~ glfw.inited)
    /\ [][pc # "failed"]_vars
    /\ [][pc' = "failed" =>
            /\ pc \in {"start", "initOpenGL"}
            /\ glfw.destroyCalls = 0 /\ glfw.terminateCalls = 0
            /\ (pc = "initOpenGL" => glfw.window /\ glfw.inited)
       ]_vars

\* the window could not be created: the library was terminated once, no
\* window was there to destroy
C27_Witness ==
    /\ pc = "failed" /\ ~ app.window_
    /\ glfw.terminateCalls = 1 /\ glfw.destroyCalls = 0
    /\ imgui.shutdownCalls = 0

\* the context no longer holds the shader program p, or holds it only as the
\* program in use that a delete call has flagged for deletion
ProgramDeletedIn(g, p) ==
    /\ <<"object", p>> \in g.released
    /\ p \notin g.programs \/ (p \in g.flagged /\ g.currentProgram = p)

\* C28: when run() ends on the desktop target, onShutdown has issued a
\* delete call for every object the preceding onInit created, whatever the
\* outcome of that onInit was: the shader program is gone or, being the
\* program in use, flagged for deletion; the texture, the vertex array and
\* the two buffers are gone.  A handle for which no onInit of the instance
\* ever created an object is still 0 when onShutdown passes it on.
C28_ShutdownDeletesWhatInitCreated ==
    [][pc = "loop" /\ pc' = "returned" =>
         /\ lastLoad.loaded \in {0, 1, 3}
         /\ lastLoad.loaded >= 1 =>
                /\ res.shaderProgram_ \in gl.programs
                /\ ProgramDeletedIn(gl', res.shaderProgram_)
         /\ lastLoad.loaded = 3 =>
                /\ res.texture_ \in gl.textures /\ res.texture_ \notin gl'.textures
                /\ res.vao_ \in gl.vertexArrays /\ res.vao_ \notin gl'.vertexArrays
                /\ {res.vbo_, res.ebo_} \subseteq gl.buffers
                /\ {res.vbo_, res.ebo_} \cap gl'.buffers = {}
         /\ obs.programsCreated = 0 => res.shaderProgram_ = 0
         /\ obs.texturesCreated = 0 => res.texture_ = 0
         /\ obs.geometryCreated = 0 =>
                res.vao_ = 0 /\ res.vbo_ = 0 /\ res.ebo_ = 0
         /\ res' = res
    ]_vars

\* the first run() ended after a shader load that succeeded and a texture
\* load that failed: the program was deleted, the other handles are 0
C28_Witness ==
    /\ pc = "returned" /\ obs.runs = 1 /\ platform = "desktop"
    /\ lastLoad.loaded = 1 /\ obs.runShutdowns = 1
    /\ ProgramDeletedIn(gl, res.shaderProgram_)
    /\ res.texture_ = 0 /\ res.vao_ = 0 /\ res.vbo_ = 0 /\ res.ebo_ = 0
    /\ gl.staleDelete = FALSE

\* C29: no step of the framework lowers the close flag while the instance
\* lives, so shouldQuit() stays true once it was true; a run() that starts
\* with the flag set is a run() of the desktop build, and it goes from
\* onInit to onShutdown without a tick.
C29_CloseFlagNeverCleared ==
    /\ [][shouldQuit(glfw) /\ pc' \notin {"destroyed", "aborted"} =>
             shouldQuit(glfw')]_vars
    /\ [][shouldQuit(glfw) /\ pc \in {"constructed", "returned"} /\ obs'.runs # obs.runs =>
             /\ platform = "desktop" /\ pc' \in {"loop", "aborted"}
             /\ obs'.runTicks = 0]_vars
    /\ [][shouldQuit(glfw) /\ pc = "loop" =>
             /\ obs'.ticks = obs.ticks /\ obs'.onTick = obs.onTick
             /\ obs'.runTicks = obs.runTicks
             /\ pc' = "returned"]_vars
    /\ [](obs.runs >= 2 => obs.runTicks = 0)

\* a second run() has started with the flag set and has ended: it executed
\* onInit and onShutdown and no tick, and the flag is still set
C29_Witness ==
    /\ pc = "returned" /\ obs.runs = 2 /\ obs.onShutdown = 2
    /\ obs.runTicks = 0 /\ obs.ticks >= 1
    /\ shouldQuit(glfw)

Abs(x) == IF x < 0 THEN 0 - x ELSE x

\* C30 as stated: after a tick lastFrameTime_ is the clock value the tick
\* read, the deltaTime values passed to onTick add up to that clock value,
\* and no deltaTime is negative.
C30_DeltaTimesSumToClock ==
    obs.ticks >= 1 =>
        /\ app.lastFrameTime_ = lastTick.clock
        /\ obs.deltaSum = lastTick.clock
        /\ lastTick.deltaTime >= 0

\* C30, amended: after a tick lastFrameTime_ is the clock value the tick
\* read, converted to float, and no deltaTime is negative; the deltaTime
\* values passed to onTick add up to the clock value as long as the clock
\* is below 2^MantissaBits, where every reading and every difference is
\* representable, and later differ from it by at most half a unit in the
\* last place of the clock value for the conversion and for each tick.
C30_DeltaTimesSumToClockRounded ==
    obs.ticks >= 1 =>
        /\ app.lastFrameTime_ = ToFloat(lastTick.clock)
        /\ lastTick.deltaTime >= 0
        /\ lastTick.clock < Pow2(MantissaBits) =>
               /\ app.lastFrameTime_ = lastTick.clock
               /\ obs.deltaSum = lastTick.clock
        /\ 2 * Abs(app.lastFrameTime_ - lastTick.clock) <= Ulp(lastTick.clock, 1)
        /\ 2 * Abs(obs.deltaSum - lastTick.clock)
               <= (obs.ticks + 1) * Ulp(lastTick.clock, 1)

\* two ticks in a long session: the second difference was rounded, and the
\* deltaTime values add up to less than lastFrameTime_
C30_Witness ==
    /\ obs.ticks = 2 /\ obs.onTick = 2
    /\ lastTick.clock >= Pow2(MantissaBits)
    /\ app.lastFrameTime_ = lastTick.clock
    /\ obs.deltaSum < app.lastFrameTime_

\* C31: on the web target the close flag is not consulted: while it is set
\* the callback stays registered and the host can issue a further frame,
\* and every frame the host issues with the flag set executes one tick()
\* and one onTick(), which sees the flag set.
C31_WebNeverConsultsCloseFlag ==
    /\ [](platform = "web" /\ pc = "hostLoop" /\ shouldQuit(glfw) =>
            /\ glfw.mainLoop
            /\ (obs.ticks < MaxTicks => ENABLED emscriptenMainLoop))
    /\ [][platform = "web" /\ shouldQuit(glfw) /\ host'.frames # host.frames =>
            /\ host'.frames = host.frames + 1
            /\ obs'.ticks = obs.ticks + 1 /\ obs'.onTick = obs.onTick + 1
            /\ lastTick'.onTicks = 1
            /\ lastTick'.closeBefore /\ lastTick'.closeAtOnTick
            /\ shouldQuit(glfw') /\ pc' = "hostLoop"
       ]_vars

\* the flag was set between two frames, and the frame the host issued
\* next ran its onTick with the flag set
C31_Witness ==
    /\ platform = "web" /\ pc = "hostLoop" /\ shouldQuit(glfw)
    /\ host.frames = 2 /\ obs.onTick = 2
    /\ lastTick.closeBefore /\ lastTick.closeAtOnTick /\ lastTick.onTicks = 1

\* C32: on the desktop target onShutdown runs and returns while the window,
\* its graphics context, the library and the UI overlay are all still
\* there and nothing was torn down; the destructor then shuts the overlay
\* down (only when construction had completed) with the window and the
\* library still there, destroys the window with the library still there,
\* and terminates the library last; when the destructor runs, every run()
\* that was started has had its onShutdown.
C32_ShutdownBeforeTeardown ==
    /\ [][platform = "desktop" /\ obs'.onShutdown # obs.onShutdown =>
            /\ pc = "loop" /\ pc' = "returned"
            /\ glfw.window /\ glfw.inited /\ imgui.alive
            /\ glfw'.window /\ glfw'.inited /\ imgui'.alive
            /\ glfw'.destroyCalls = 0 /\ glfw'.terminateCalls = 0
            /\ imgui'.shutdownCalls = 0
       ]_vars
    /\ [][pc' = "destroyed" =>
            /\ (platform = "desktop" => obs.onShutdown = obs.runs)
            /\ app.initialized_ /\ app.window_
            /\ ~ DestructorSteps(app, imgui, glfw)[1].imgui.alive
            /\ DestructorSteps(app, imgui, glfw)[1].imgui.shutdownCalls = 1
            /\ DestructorSteps(app, imgui, glfw)[1].glfw = glfw
            /\ glfw.window /\ glfw.inited
            /\ AfterOverlay([app EXCEPT !.initialized_ = FALSE], imgui, glfw).imgui = imgui
            /\ ~ DestructorSteps(app, imgui, glfw)[2].glfw.window
            /\ DestructorSteps(app, imgui, glfw)[2].glfw.inited
            /\ DestructorSteps(app, imgui, glfw)[2].glfw.destroyCalls = 1
            /\ DestructorSteps(app, imgui, glfw)[2].glfw.terminateCalls = 0
            /\ DestructorSteps(app, imgui, glfw)[2].imgui.shutdownCalls = 1
            /\ ~ DestructorSteps(app, imgui, glfw)[3].glfw.inited
            /\ DestructorSteps(app, imgui, glfw)[3].glfw.terminateCalls = 1
            /\ DestructorSteps(app, imgui, glfw)[3].glfw.destroyCalls = 1
            /\ imgui' = DestructorSteps(app, imgui, glfw)[3].imgui
            /\ glfw' = DestructorSteps(app, imgui, glfw)[3].glfw
       ]_vars

\* the instance was destroyed after a run() on the desktop target that
\* rendered and shut down
C32_Witness ==
    /\ platform = "desktop" /\ pc = "destroyed"
    /\ obs.runs = 1 /\ obs.onShutdown = 1 /\ obs.ticks >= 1
    /\ imgui.shutdownCalls = 1 /\ glfw.destroyCalls = 1
    /\ glfw.terminateCalls = 1

\* C33: a loadTexture call gives the texture the rows, and the caller the
\* outcome, that the same call gives as the first and only call on a fresh
\* context and a decoder whose flag was never set, whatever calls came
\* before it; it leaves the decoder's flag at its own argument.
C33_FlipDependsOnArgumentOnly ==
    [][lastCall'.op = "loadTexture" /\ lastCall'.count # lastCall.count =>
         \E alone \in {loadTexture(EmptyGL, NoStbi, files, lastCall'.args[1],
                                   lastCall'.args[2])} :
             /\ (lastCall'.returned.value = 0) = (alone.result = 0)
             /\ lastCall'.returned.value # 0 =>
                    TextureRows(gl', lastCall'.returned.value)
                        = TextureRows(alone.gl, alone.result)
             /\ stbi'.flip = lastCall'.args[2]
             /\ lastCall'.stbiBefore = stbi
    ]_vars

\* a load without flip after a load with flip: the decoder's flag was set
\* when the call began, and the texture has the rows in file order
C33_Witness ==
    /\ lastCall.op = "loadTexture" /\ lastCall.args = <<TexturePath, FALSE>>
    /\ lastCall.stbiBefore.flip /\ ~ stbi.flip
    /\ FileStatus(files, TexturePath) = "grey"
    /\ lastCall.returned.value # 0
    /\ TextureRows(gl, lastCall.returned.value)
          = << << <<9, 9, 9, 255>> >>, << <<10, 10, 10, 255>> >>,
               << <<11, 11, 11, 255>> >> >>

\* C34: a loadTexture call on a file that does not decode leaves the
\* context as it was and hands out no buffer; on a file that decodes it
\* creates one texture object, the one it returns, uploads the image and
\* generates the mipmaps while the decoded buffer is still allocated, and
\* frees the buffer once, as its last step; no buffer outlives a call.
C34_OneTextureOneFree ==
    /\ [](stbi.buffers = 0)
    /\ [][lastCall'.op = "loadTexture" /\ lastCall'.count # lastCall.count =>
            IF ~ Decodes(FileStatus(files, lastCall'.args[1]))
            THEN /\ lastCall'.returned.value = 0
                 /\ gl' = gl
                 /\ stbi'.buffers = stbi.buffers
            ELSE \E c \in {glGenTextures(gl)} :
                 \E steps \in {TextureSteps(
                                  c,
                                  BufferReturned(
                                      stbi_set_flip_vertically_on_load(
                                          stbi, lastCall'.args[2])),
                                  stbi_load(stbi', files, lastCall'.args[1]))} :
                     /\ lastCall'.returned.value = c.name
                     /\ c.name # 0 /\ c.name \notin gl.textures
                     /\ gl'.textures = gl.textures \cup {c.name}
                     /\ \E im \in steps[1].gl.images : im[1] = c.name
                     /\ c.name \notin steps[1].gl.mipmaps
                     /\ steps[1].stbi.buffers = 1
                     /\ c.name \in steps[2].gl.mipmaps
                     /\ steps[2].stbi.buffers = 1
                     /\ steps[3].stbi.buffers = 0
                     /\ steps[3].gl = steps[2].gl
                     /\ gl' = steps[3].gl /\ stbi' = steps[3].stbi
       ]_vars

\* a load of a file that decodes: the context holds one texture more than
\* before, the one returned, with its image and mipmaps, and the decoder
\* has no buffer handed out
C34_Witness ==
    /\ lastCall.op = "loadTexture" /\ lastCall.returned.value # 0
    /\ Decodes(FileStatus(files, TexturePath))
    /\ lastCall.glAfter.textures
          = lastCall.glBefore.textures \cup {lastCall.returned.value}
    /\ lastCall.returned.value \notin lastCall.glBefore.textures
    /\ lastCall.returned.value \in lastCall.glAfter.mipmaps
    /\ stbi.buffers = 0 /\ gl = lastCall.glAfter

====
